---- MODULE Spec2Model ----
(***************************************************************************)
(* Photometry signal-processing core (signal_processing.py,               *)
(* analysis/peak_analysis.py) and the host operations of                   *)
(* gui/main_window.py that store and consume its results.                  *)
(*                                                                         *)
(* Numbers.  Samples are fixed-point integers whose unit is the pipeline's *)
(* epsilon 1e-9 (Eps), so every comparison against 1e-9 in the source is a *)
(* comparison against Eps here.  Real-valued results of numeric library    *)
(* routines (least squares, percentile, division) are rounded down to that *)
(* grid.  The two non-finite floats are the reserved values NaN and Inf.   *)
(*                                                                         *)
(* Optional arrays.  A Python value that is either None or an array is the *)
(* record None or Some(<<...>>).                                           *)
(***************************************************************************)
EXTENDS Integers, Sequences, FiniteSets

\* ---------------------------------------------------------------- bounds
MaxLen == 9
MaxFactor == 3

\* ------------------------------------------------------ program constants
Eps == 1
NaN == 99999
Inf == 88888

\* ------------------------------------------------------- optional arrays
None == [isNone |-> TRUE, arr |-> <<>>]
Some(a) == [isNone |-> FALSE, arr |-> a]

\* ---------------------------------------------------- numeric primitives
Abs(x) == IF x < 0 THEN -x ELSE x
Max2(a, b) == IF a >= b THEN a ELSE b
Min2(a, b) == IF a <= b THEN a ELSE b

\* F(x), with x evaluated once before F uses it (a local of the code holds
\* a value, not an expression).
Once(x, F(_)) == CHOOSE r \in {F(v) : v \in {x}} : TRUE

RECURSIVE SumTo(_, _)
SumTo(s, n) == IF n = 0 THEN 0 ELSE s[n] + SumTo(s, n - 1)
Sum(s) == SumTo(s, Len(s))

\* Quotient rounded down, for either sign of the divisor (d # 0).
FloorDiv(n, d) == IF d > 0 THEN n \div d ELSE (-n) \div (-d)

IsFinite(x) == x # NaN /\ x # Inf
AllFinite(s) == \A i \in 1..Len(s) : IsFinite(s[i])
\* np.where(np.isfinite(a), a, 0.0)
CleanNonFinite(s) == [i \in 1..Len(s) |-> IF IsFinite(s[i]) THEN s[i] ELSE 0]
IsConstant(s) == \A i \in 1..Len(s) : s[i] = s[1]

\* Stride as a bug would have it: every k-th sample counted from the k-th.
Stride_from_kth(s, k) == [j \in 1..(Len(s) \div k) |-> s[j * k]]

\* a[::k], k >= 1
Stride(s, k) == [j \in 1..((Len(s) + k - 1) \div k) |-> s[(j - 1) * k + 1]]

RECURSIVE InsertSorted(_, _)
InsertSorted(s, x) ==
    IF s = <<>> THEN <<x>>
    ELSE IF x <= Head(s) THEN <<x>> \o s
    ELSE <<Head(s)>> \o InsertSorted(Tail(s), x)
RECURSIVE SortTo(_, _)
SortTo(s, n) == IF n = 0 THEN <<>> ELSE InsertSorted(SortTo(s, n - 1), s[n])
\* np.sort
np_sort(s) == SortTo(s, Len(s))

\* ------------------------------------------------ numeric library models
\* Twice np.median(s) (an even-length median is a half-integer), Len(s) > 0.
median2(s) ==
    LET t == np_sort(s)
        n == Len(s)
    IN  IF n % 2 = 1 THEN 2 * t[(n + 1) \div 2] ELSE t[n \div 2] + t[n \div 2 + 1]

\* np.percentile(s, 10): linear interpolation at position 0.1 * (n - 1).
percentile10(s) ==
    LET t == np_sort(s)
        lo == (Len(s) - 1) \div 10
        rem == (Len(s) - 1) % 10
    IN  IF rem = 0 THEN t[lo + 1]
        ELSE t[lo + 1] + FloorDiv(rem * (t[lo + 2] - t[lo + 1]), 10)

\* n^2 * variance of s; np.std(s) < 1e-9 iff this is below n^2 * Eps^2.
VarN2(s) == Len(s) * Sum([i \in 1..Len(s) |-> s[i] * s[i]]) - Sum(s) * Sum(s)
StdBelowEps(s) == VarN2(s) < Len(s) * Len(s) * Eps * Eps

\* slope * x + intercept of scipy.stats.linregress(x, y), VarN2(x) > 0.
linregress_line(x, y) ==
    LET n == Len(x)
        A == n * Sum([i \in 1..n |-> x[i] * y[i]]) - Sum(x) * Sum(y)
        D == VarN2(x)
    IN  [i \in 1..n |-> FloorDiv(n * A * x[i] + Sum(y) * D - A * Sum(x), n * D)]

\* poly.polyval(t, poly.polyfit(t, y, deg)) on t = linspace(0, 1, n): the
\* least-squares polynomial of degree deg in {0, 1, 2} evaluated at the
\* samples.  The fit is invariant under an affine change of abscissa, so it
\* is computed on the centred abscissa u[i] = 2i - (n + 1), whose odd power
\* sums vanish.  With at most deg + 1 samples the fit interpolates them.
polyfit_curve(y, deg) ==
    LET n == Len(y)
        u == [i \in 1..n |-> 2 * i - (n + 1)]
        S0 == n
        S2 == Sum([i \in 1..n |-> u[i] * u[i]])
        S4 == Sum([i \in 1..n |-> u[i] * u[i] * u[i] * u[i]])
        T0 == Sum(y)
        T1 == Sum([i \in 1..n |-> u[i] * y[i]])
        T2 == Sum([i \in 1..n |-> u[i] * u[i] * y[i]])
        det == S0 * S4 - S2 * S2
    IN  IF n <= deg + 1 THEN y
        ELSE IF deg = 0 THEN [i \in 1..n |-> FloorDiv(T0, S0)]
        ELSE IF deg = 1 THEN
            [i \in 1..n |-> FloorDiv(T0 * S2 + T1 * u[i] * S0, S0 * S2)]
        ELSE
            [i \in 1..n |->
                FloorDiv(((T0 * S4 - S2 * T2) + (S0 * T2 - S2 * T0) * u[i] * u[i]) * S2
                             + T1 * u[i] * det,
                         det * S2)]

\* scipy.signal.butter + sosfiltfilt, represented by a zero-phase 3-tap
\* kernel with the pass band of the filter kind: 'low' and 'bandstop' pass
\* the constant component, 'high' and 'bandpass' remove it.  Output length
\* is the input length.
Smooth3(x) ==
    [i \in 1..Len(x) |->
        LET l == IF i = 1 THEN x[1] ELSE x[i - 1]
            r == IF i = Len(x) THEN x[Len(x)] ELSE x[i + 1]
        IN  FloorDiv(l + 2 * x[i] + r, 4)]
sosfiltfilt(btype, x) ==
    IF btype \in {"low", "bandstop"} THEN Smooth3(x)
    ELSE [i \in 1..Len(x) |-> x[i] - Smooth3(x)[i]]

\* ------------------------------------------------------ signal_processing
Zeros(n) == [i \in 1..n |-> 0]
AllFalse(n) == [i \in 1..n |-> FALSE]

\* What the library calls inside butter_filter do on one call: everything
\* succeeds, butter() raises, sosfiltfilt() raises, the filtered trace
\* contains a non-finite value, or an exception is raised outside the inner
\* try blocks (a cutoff that cannot be compared with a number).
LibOutcomes == {"ok", "design_error", "apply_error", "nonfinite", "type_error"}

\* butter() accepts a scalar cutoff for 'low'/'high' and a pair for the
\* band kinds; anything else raises ValueError.
CutoffFitsKind(cutoff, btype) ==
    IF btype \in {"low", "high"} THEN Len(cutoff) = 1 ELSE Len(cutoff) = 2

\* The body of butter_filter's outer try.  data is None or an array; cutoff
\* is <<c>> for a scalar and <<low, high>> for a pair.  ret is the value
\* returned, or, when raised, the value bound to `data` at the raise; path
\* names the return statement taken.  The traces modelled are far below the
\* 10 MB at which the GPU path is chosen, so the CPU path is the one taken.
butter_filter_try(data, cutoff, fs, btype, order, lib) ==
    IF data.isNone \/ Len(data.arr) = 0
    THEN [raised |-> FALSE, ret |-> data, path |-> "empty"]
    ELSE
        LET cleaned == IF AllFinite(data.arr) THEN data.arr
                       ELSE CleanNonFinite(data.arr)
            bad_cutoff == \E i \in 1..Len(cutoff) :
                              cutoff[i] <= 0 \/ 2 * cutoff[i] >= fs
            min_length == Max2(order * 6, 9)
            filtered_data == IF lib = "nonfinite"
                             THEN [sosfiltfilt(btype, cleaned) EXCEPT ![1] = NaN]
                             ELSE sosfiltfilt(btype, cleaned)
        IN  IF lib = "type_error"
            THEN [raised |-> TRUE, ret |-> Some(cleaned), path |-> "exception"]
            ELSE IF bad_cutoff
            THEN [raised |-> FALSE, ret |-> Some(cleaned), path |-> "bad_cutoff"]
            ELSE IF Len(cleaned) < min_length
            THEN [raised |-> FALSE, ret |-> Some(cleaned), path |-> "too_short"]
            ELSE IF lib = "design_error" \/ ~CutoffFitsKind(cutoff, btype)
            THEN [raised |-> FALSE, ret |-> Some(cleaned), path |-> "design_error"]
            ELSE IF lib = "apply_error"
            THEN [raised |-> FALSE, ret |-> Some(cleaned), path |-> "apply_error"]
            ELSE IF ~AllFinite(filtered_data)
            THEN [raised |-> FALSE, ret |-> Some(cleaned), path |-> "nonfinite_output"]
            ELSE [raised |-> FALSE, ret |-> Some(filtered_data), path |-> "filtered"]

\* butter_filter without its outer except clause.
butter_filter_unguarded(data, cutoff, fs, btype, order, lib) ==
    butter_filter_try(data, cutoff, fs, btype, order, lib)

\* butter_filter: the try body under `except Exception: return data`.
butter_filter(data, cutoff, fs, btype, order, lib) ==
    LET r == butter_filter_try(data, cutoff, fs, btype, order, lib)
    IN  [raised |-> FALSE, ret |-> r.ret, path |-> r.path]

\* fit_bleaching_correction(signal, control); control is None or an array.
fit_bleaching_correction(signal, control) ==
    IF control.isNone \/ Len(control.arr) = 0 \/ Len(signal) = 0
    THEN Zeros(Len(signal))
    ELSE IF StdBelowEps(control.arr) \/ StdBelowEps(signal)
    THEN LET c == control.arr
             n == Len(c)
         IN  IF Sum(c) > n * Eps
             THEN [i \in 1..n |-> FloorDiv(c[i] * Sum(signal) * n, Sum(c) * Len(signal))]
             ELSE [i \in 1..n |-> FloorDiv(c[i] * Sum(signal), Len(signal))]
    ELSE linregress_line(control.arr, signal)

\* The mask of the samples that stay below the limit.
detect_artifacts_below(control_signal, threshold10) ==
    IF Len(control_signal) < 2 THEN AllFalse(Len(control_signal))
    ELSE
        LET n == Len(control_signal)
            med2 == median2(control_signal)
            dev2 == [i \in 1..n |-> Abs(2 * control_signal[i] - med2)]
            mad4 == median2(dev2)
        IN  [i \in 1..n |-> dev2[i] * 200000 < threshold10 * mad4 * 14826]

\* detect_artifacts(control_signal, threshold), threshold in tenths
\* (3.0 is 30).  |x - median| > threshold * MAD * 1.4826, with everything
\* scaled to integers: twice the deviation, four times the MAD.
MadToStd10000 == 14826
detect_artifacts(control_signal, threshold10) ==
    IF Len(control_signal) < 2 THEN AllFalse(Len(control_signal))
    ELSE
        LET n == Len(control_signal)
            med2 == median2(control_signal)
            dev2 == [i \in 1..n |-> Abs(2 * control_signal[i] - med2)]
            mad4 == median2(dev2)
        IN  [i \in 1..n |-> dev2[i] * 200000 > threshold10 * mad4 * MadToStd10000]
DefaultThreshold10 == 30

\* ------------------------------------------ process_data_pipeline: state
VARIABLES
    time_raw,           \* argument: None or the time axis
    signal_raw,         \* argument: None or the signal channel
    control_raw,        \* argument: None or the reference channel
    cfg,                \* the remaining arguments (fs, cutoffs, filter, ...)
    fault,              \* stage in which a library routine raises, or "none"
    pc,                 \* position in process_data_pipeline
    processed_signal,
    processed_control,  \* None or an array
    artifact_mask,
    original_signal,
    original_control,   \* None or an array
    motion_corrected,
    detrended_signal,
    drift_curve,        \* None or an array
    dff_signal,
    result,             \* the six returned values, each None or an array
    ran,                \* stages entered so far
    raised              \* stages whose except clause ran

pipeVars == <<time_raw, signal_raw, control_raw, cfg, fault, pc, processed_signal,
              processed_control, artifact_mask, original_signal, original_control,
              motion_corrected, detrended_signal, drift_curve, dff_signal, result,
              ran, raised>>

Stages == {"artifact", "filter", "motion", "drift", "dff", "downsample"}
FilterTypes == {"Lowpass", "Highpass", "Bandpass", "Bandstop"}

\* return None, None, None, None, None, None
Failure == [time_ds |-> None, dff_ds |-> None, raw1_ds |-> None,
            raw2_ds |-> None, drift_ds |-> None, artifact_mask_ds |-> None]

\* The validation as a bug would have it: the cutoff order is checked for
\* the band filters only.
InvalidCall_band_only ==
    \/ signal_raw.isNone
    \/ Len(signal_raw.arr) = 0
    \/ cfg.fs <= 0
    \/ /\ cfg.filter_type \in {"Bandpass", "Bandstop"}
       /\ cfg.low_cutoff >= cfg.high_cutoff

\* True when the call is rejected by the input validation.
InvalidCall ==
    \/ signal_raw.isNone
    \/ Len(signal_raw.arr) = 0
    \/ cfg.fs <= 0
    \/ cfg.low_cutoff >= cfg.high_cutoff

\* The cutoff and btype handed to butter_filter for each filter kind.
FilterCutoff(c) ==
    IF c.filter_type = "Lowpass" THEN <<c.high_cutoff>>
    ELSE IF c.filter_type = "Highpass" THEN <<c.low_cutoff>>
    ELSE <<c.low_cutoff, c.high_cutoff>>
FilterBtype(c) ==
    IF c.filter_type = "Lowpass" THEN "low"
    ELSE IF c.filter_type = "Highpass" THEN "high"
    ELSE IF c.filter_type = "Bandpass" THEN "bandpass"
    ELSE "bandstop"

\* The dF/F statement block: f0 = np.percentile(d, 10);
\* f0 = max(abs(f0), 1e-9); (d - f0) / f0 * 100.
normalize_dff(detrended) ==
    LET f0 == Max2(Abs(percentile10(detrended)), Eps)
    IN  [i \in 1..Len(detrended) |-> FloorDiv((detrended[i] - f0) * 100, f0)]

\* The downsampling block as a bug would have it: the mask is not strided.
DownsampleOutputs_full_mask(time, dff, raw1, raw2, drift, mask, factor) ==
    [time_ds |-> Some(Stride(time, factor)),
     dff_ds |-> Some(Stride(dff, factor)),
     raw1_ds |-> Some(Stride(raw1, factor)),
     raw2_ds |-> IF raw2.isNone THEN None ELSE Some(Stride(raw2.arr, factor)),
     drift_ds |-> IF drift.isNone THEN None ELSE Some(Stride(drift.arr, factor)),
     artifact_mask_ds |-> Some(mask)]

\* The values returned by the downsampling block for stride `factor`.
\* raw1/raw2 are the filtered or the original channels, already chosen.
DownsampleOutputs(time, dff, raw1, raw2, drift, mask, factor) ==
    [time_ds |-> Some(Stride(time, factor)),
     dff_ds |-> Some(Stride(dff, factor)),
     raw1_ds |-> Some(Stride(raw1, factor)),
     raw2_ds |-> IF raw2.isNone THEN None ELSE Some(Stride(raw2.arr, factor)),
     drift_ds |-> IF drift.isNone THEN None ELSE Some(Stride(drift.arr, factor)),
     artifact_mask_ds |-> Some(Stride(mask, factor))]

\* ---------------------------------------- process_data_pipeline: actions
\* Input validation: an invalid call returns the failure tuple at once.
Reject ==
    /\ pc = "validate"
    /\ InvalidCall
    /\ result' = Failure
    /\ pc' = "done"
    /\ UNCHANGED <<time_raw, signal_raw, control_raw, cfg, fault, processed_signal,
                   processed_control, artifact_mask, original_signal, original_control,
                   motion_corrected, detrended_signal, drift_curve, dff_signal, ran,
                   raised>>

\* Conversion of both channels to float arrays, non-finite samples zeroed.
\* A signal that cannot be converted fails the call; a reference that
\* cannot be converted is dropped.
Convert ==
    /\ pc = "validate"
    /\ ~InvalidCall
    /\ IF fault = "convert_signal"
       THEN /\ result' = Failure
            /\ pc' = "done"
            /\ UNCHANGED <<processed_signal, processed_control>>
       ELSE /\ processed_signal' = CleanNonFinite(signal_raw.arr)
            /\ processed_control' =
                   IF control_raw.isNone \/ fault = "convert_control" THEN None
                   ELSE Some(CleanNonFinite(control_raw.arr))
            /\ pc' = "artifact"
            /\ UNCHANGED result
    /\ UNCHANGED <<time_raw, signal_raw, control_raw, cfg, fault, artifact_mask,
                   original_signal, original_control, motion_corrected,
                   detrended_signal, drift_curve, dff_signal, ran, raised>>

\* The stage with the mask of an absent reference shaped like the reference.
ArtifactStage_mask_like_control ==
    /\ pc = "artifact"
    /\ ran' = ran \cup {"artifact"}
    /\ IF fault = "artifact"
       THEN /\ artifact_mask' = AllFalse(Len(processed_signal))
            /\ raised' = raised \cup {"artifact"}
       ELSE /\ artifact_mask' =
                   IF processed_control.isNone THEN AllFalse(0)
                   ELSE detect_artifacts(processed_control.arr, DefaultThreshold10)
            /\ UNCHANGED raised
    /\ original_signal' = processed_signal
    /\ original_control' = processed_control
    /\ pc' = "filter"
    /\ UNCHANGED <<time_raw, signal_raw, control_raw, cfg, fault, processed_signal,
                   processed_control, motion_corrected, detrended_signal, drift_curve,
                   dff_signal, result>>
\* Artifact detection, then the copies kept as the original channels.
ArtifactStage ==
    /\ pc = "artifact"
    /\ ran' = ran \cup {"artifact"}
    /\ IF fault = "artifact"
       THEN /\ artifact_mask' = AllFalse(Len(processed_signal))
            /\ raised' = raised \cup {"artifact"}
       ELSE /\ artifact_mask' =
                   IF processed_control.isNone THEN AllFalse(Len(processed_signal))
                   ELSE detect_artifacts(processed_control.arr, DefaultThreshold10)
            /\ UNCHANGED raised
    /\ original_signal' = processed_signal
    /\ original_control' = processed_control
    /\ pc' = "filter"
    /\ UNCHANGED <<time_raw, signal_raw, control_raw, cfg, fault, processed_signal,
                   processed_control, motion_corrected, detrended_signal, drift_curve,
                   dff_signal, result>>

\* Filtering of both channels; on an exception both revert to the originals.
FilterStage ==
    /\ pc = "filter"
    /\ ran' = ran \cup {"filter"}
    /\ \E libS \in LibOutcomes, libC \in LibOutcomes :
         IF fault = "filter"
         THEN /\ processed_signal' = original_signal
              /\ processed_control' = original_control
              /\ raised' = raised \cup {"filter"}
         ELSE /\ processed_signal' =
                     butter_filter(Some(processed_signal), FilterCutoff(cfg), cfg.fs,
                                   FilterBtype(cfg), cfg.filter_order, libS).ret.arr
              /\ processed_control' =
                     IF processed_control.isNone THEN None
                     ELSE butter_filter(processed_control, FilterCutoff(cfg), cfg.fs,
                                        FilterBtype(cfg), cfg.filter_order, libC).ret
              /\ UNCHANGED raised
    /\ pc' = "motion"
    /\ UNCHANGED <<time_raw, signal_raw, control_raw, cfg, fault, artifact_mask,
                   original_signal, original_control, motion_corrected,
                   detrended_signal, drift_curve, dff_signal, result>>

\* Motion correction: subtract the fitted reference; the subtraction raises
\* when the two channels differ in length.
MotionStage ==
    /\ pc = "motion"
    /\ ran' = ran \cup {"motion"}
    /\ LET fails == \/ fault = "motion"
                    \/ /\ ~processed_control.isNone
                       /\ Len(processed_control.arr) # Len(processed_signal)
       IN  IF fails
           THEN /\ motion_corrected' = processed_signal
                /\ raised' = raised \cup {"motion"}
           ELSE /\ motion_corrected' =
                     IF processed_control.isNone THEN processed_signal
                     ELSE LET fit == fit_bleaching_correction(processed_signal,
                                                              processed_control)
                          IN  [i \in 1..Len(processed_signal) |->
                                  processed_signal[i] - fit[i]]
                /\ UNCHANGED raised
    /\ pc' = "drift"
    /\ UNCHANGED <<time_raw, signal_raw, control_raw, cfg, fault, processed_signal,
                   processed_control, artifact_mask, original_signal, original_control,
                   detrended_signal, drift_curve, dff_signal, result>>

\* polyfit raises for a negative degree.
DriftRaises == fault = "drift" \/ (cfg.drift_correction /\ cfg.drift_degree < 0)

\* Drift correction, try body.
DriftTry ==
    /\ pc = "drift"
    /\ ~DriftRaises
    /\ ran' = ran \cup {"drift"}
    /\ IF cfg.drift_correction
       THEN LET curve == polyfit_curve(motion_corrected, cfg.drift_degree)
            IN  /\ drift_curve' = Some(curve)
                /\ detrended_signal' =
                       [i \in 1..Len(motion_corrected) |-> motion_corrected[i] - curve[i]]
       ELSE /\ detrended_signal' = motion_corrected
            /\ drift_curve' = None
    /\ pc' = "dff"
    /\ UNCHANGED <<time_raw, signal_raw, control_raw, cfg, fault, processed_signal,
                   processed_control, artifact_mask, original_signal, original_control,
                   motion_corrected, dff_signal, result, raised>>

\* The except clause of the drift stage as a bug would have it: the call
\* gives up.
DriftExcept_abort ==
    /\ pc = "drift"
    /\ DriftRaises
    /\ ran' = ran \cup {"drift"}
    /\ raised' = raised \cup {"drift"}
    /\ result' = Failure
    /\ pc' = "done"
    /\ UNCHANGED <<time_raw, signal_raw, control_raw, cfg, fault, processed_signal,
                   processed_control, artifact_mask, original_signal, original_control,
                   motion_corrected, detrended_signal, drift_curve, dff_signal>>

\* Drift correction, except clause.
DriftExcept ==
    /\ pc = "drift"
    /\ DriftRaises
    /\ ran' = ran \cup {"drift"}
    /\ raised' = raised \cup {"drift"}
    /\ detrended_signal' = motion_corrected
    /\ drift_curve' = None
    /\ pc' = "dff"
    /\ UNCHANGED <<time_raw, signal_raw, control_raw, cfg, fault, processed_signal,
                   processed_control, artifact_mask, original_signal, original_control,
                   motion_corrected, dff_signal, result>>

\* dF/F normalisation; zeros on an exception.
DffStage ==
    /\ pc = "dff"
    /\ ran' = ran \cup {"dff"}
    /\ IF fault = "dff"
       THEN /\ dff_signal' = Zeros(Len(detrended_signal))
            /\ raised' = raised \cup {"dff"}
       ELSE /\ dff_signal' = normalize_dff(detrended_signal)
            /\ UNCHANGED raised
    /\ pc' = "downsample"
    /\ UNCHANGED <<time_raw, signal_raw, control_raw, cfg, fault, processed_signal,
                   processed_control, artifact_mask, original_signal, original_control,
                   motion_corrected, detrended_signal, drift_curve, result>>

\* Slicing a missing time axis raises.
DownsampleRaises == fault = "downsample" \/ time_raw.isNone

\* Downsampling, try body: the six values are returned.
DownsampleTry ==
    /\ pc = "downsample"
    /\ ~DownsampleRaises
    /\ ran' = ran \cup {"downsample"}
    /\ LET factor == Max2(1, cfg.downsample_factor)
       IN  result' =
               IF cfg.filter_raw_signals
               THEN DownsampleOutputs(time_raw.arr, dff_signal, processed_signal,
                                      processed_control, drift_curve, artifact_mask,
                                      factor)
               ELSE DownsampleOutputs(time_raw.arr, dff_signal, original_signal,
                                      original_control, drift_curve, artifact_mask,
                                      factor)
    /\ pc' = "done"
    /\ UNCHANGED <<time_raw, signal_raw, control_raw, cfg, fault, processed_signal,
                   processed_control, artifact_mask, original_signal, original_control,
                   motion_corrected, detrended_signal, drift_curve, dff_signal, raised>>

\* Downsampling, except clause: the failure tuple is returned.
DownsampleExcept ==
    /\ pc = "downsample"
    /\ DownsampleRaises
    /\ ran' = ran \cup {"downsample"}
    /\ raised' = raised \cup {"downsample"}
    /\ result' = Failure
    /\ pc' = "done"
    /\ UNCHANGED <<time_raw, signal_raw, control_raw, cfg, fault, processed_signal,
                   processed_control, artifact_mask, original_signal, original_control,
                   motion_corrected, detrended_signal, drift_curve, dff_signal>>

\* -------------------------------------------------------- recordings used
Ticks(n) == [i \in 1..n |-> i - 1]
Const(n, c) == [i \in 1..n |-> c]
Wave(n) == [i \in 1..n |-> ((i * 7) % 11) % 9]
Ref(n) == [i \in 1..n |-> ((i * 5) % 7) + 1]
WithNonFinite(s) ==
    [i \in 1..Len(s) |-> IF i = 2 THEN NaN ELSE IF i = 5 THEN Inf ELSE s[i]]

Faults == Stages \cup {"none", "convert_signal", "convert_control"}

\* Locals before the call has run.
PipelineIdle ==
    /\ pc = "validate"
    /\ processed_signal = <<>>
    /\ processed_control = None
    /\ artifact_mask = <<>>
    /\ original_signal = <<>>
    /\ original_control = None
    /\ motion_corrected = <<>>
    /\ detrended_signal = <<>>
    /\ drift_curve = None
    /\ dff_signal = <<>>
    /\ result = Failure
    /\ ran = {}
    /\ raised = {}

\* Calls around the validation: missing, empty and present signal, every
\* sign of fs, both orders of the cutoffs, every filter kind.
ValidationCalls ==
    /\ signal_raw \in {None, Some(<<>>), Some(Wave(3))}
    /\ control_raw \in {None, Some(Ref(3))}
    /\ time_raw = Some(Ticks(3))
    /\ fault = "none"
    /\ cfg \in [fs : {-1, 0, 10}, low_cutoff : {0, 1, 3}, high_cutoff : {2, 3},
                filter_type : FilterTypes, filter_order : {2},
                drift_correction : {TRUE}, drift_degree : {2},
                downsample_factor : {1}, filter_raw_signals : {TRUE}]

\* Calls that pass the validation: every length, reference present or not,
\* time axis present or not, drift correction off, on and with a degree
\* polyfit rejects, every stride, both raw-signal choices, and a library
\* exception in every stage.
StageCalls ==
    /\ fault \in Faults
    /\ \E n \in 1..MaxLen :
         /\ signal_raw = Some(Wave(n))
         /\ control_raw \in {None, Some(Ref(n))}
         /\ time_raw \in {Some(Ticks(n))} \cup (IF fault = "none" THEN {None} ELSE {})
    /\ \E d \in {<<FALSE, 2>>, <<TRUE, 2>>, <<TRUE, -1>>} :
         cfg \in [fs : {10}, low_cutoff : {1}, high_cutoff : {2},
                  filter_type : {"Lowpass", "Bandpass"}, filter_order : {1},
                  drift_correction : {d[1]}, drift_degree : {d[2]},
                  downsample_factor : 0..MaxFactor,
                  filter_raw_signals : BOOLEAN]

\* Calls for the numeric content: constant, varying and partly non-finite
\* signals, reference absent, constant or varying, cutoffs inside and
\* beyond Nyquist, every filter kind, both orders, every drift setting.
NumericCalls ==
    /\ \E n \in 1..MaxLen :
         /\ signal_raw \in {Some(Const(n, 5)), Some(Wave(n)), Some(WithNonFinite(Wave(n)))}
         /\ control_raw \in {None, Some(Const(n, 4)), Some(Ref(n))}
         /\ time_raw = Some(Ticks(n))
    /\ fault = "none"
    /\ \E d \in {<<FALSE, 2>>, <<TRUE, 0>>, <<TRUE, 1>>, <<TRUE, 2>>} :
         cfg \in [fs : {10}, low_cutoff : {1}, high_cutoff : {2, 6},
                  filter_type : FilterTypes, filter_order : {1, 2},
                  drift_correction : {d[1]}, drift_degree : {d[2]},
                  downsample_factor : {1}, filter_raw_signals : {TRUE}]

\* A specification about another component leaves the pipeline idle.
PipelineUnused ==
    /\ PipelineIdle
    /\ time_raw = None
    /\ signal_raw = None
    /\ control_raw = None
    /\ fault = "none"
    /\ cfg = [fs |-> 10, low_cutoff |-> 1, high_cutoff |-> 2,
              filter_type |-> "Bandpass", filter_order |-> 2,
              drift_correction |-> TRUE, drift_degree |-> 2,
              downsample_factor |-> 1, filter_raw_signals |-> TRUE]

\* ------------------------------------------------- butter_filter: calls
MaxCalls == 2

VARIABLES
    bf_data,    \* the trace the caller holds: None or an array
    bf_in,      \* the data argument of the last butter_filter call
    bf_out,     \* what that call did: raised, ret, path
    bf_calls    \* calls made so far

bfVars == <<bf_data, bf_in, bf_out, bf_calls>>

NoCall == [raised |-> FALSE, ret |-> None, path |-> "none"]

\* The traces of test_filter_robustness: normal, with NaN and inf, shorter
\* than the minimum length, empty; and a missing trace.
FilterInit ==
    /\ \E n \in 0..MaxLen :
         bf_data \in {None, Some(Wave(n)), Some(WithNonFinite(Wave(n)))}
    /\ bf_in = None
    /\ bf_out = NoCall
    /\ bf_calls = 0

FilterUnused == FilterInit /\ bf_data = None

\* data = butter_filter(data, cutoff, fs, btype, order): one call on the
\* caller's trace, which is then replaced by the returned one (the loop of
\* test 8).  When the call raises, the assignment does not happen.
ButterFilterCall ==
    /\ bf_calls < MaxCalls
    /\ \E cutoff \in {<<0>>, <<1>>, <<6>>, <<1, 2>>, <<1, 6>>},
          btype \in {"low", "high", "bandpass", "bandstop"},
          order \in {1, 2},
          lib \in LibOutcomes :
         LET r == butter_filter(bf_data, cutoff, 10, btype, order, lib)
         IN  /\ bf_in' = bf_data
             /\ bf_out' = r
             /\ bf_data' = IF r.raised THEN bf_data ELSE r.ret
    /\ bf_calls' = bf_calls + 1

\* ------------------------------------------------ advanced_denoise_signal
\* The positions (from 1) of a mask that hold the value b, ascending.
Where(mask, b) == SelectSeq([i \in 1..Len(mask) |-> i], LAMBDA i : mask[i] = b)

\* interp1d(time[valid], signal[valid], kind='linear',
\* fill_value='extrapolate') at time[q]: the line through the two knots
\* around q, or through the first two / last two knots outside them.
InterpAt(signal, time, valid, q) ==
    LET m == Len(valid)
        below == Cardinality({k \in 1..m : valid[k] < q})
        k == Min2(Max2(below, 1), m - 1)
        lo == valid[k]
        hi == valid[k + 1]
    IN  signal[lo] + FloorDiv((signal[hi] - signal[lo]) * (time[q] - time[lo]),
                              time[hi] - time[lo])

\* slope * control[q] + intercept of linregress(control[valid], signal[valid]).
PredictAt(signal, control, valid, q) ==
    LET x == [k \in 1..Len(valid) |-> control[valid[k]]]
        y == [k \in 1..Len(valid) |-> signal[valid[k]]]
        n == Len(valid)
        A == n * Sum([k \in 1..n |-> x[k] * y[k]]) - Sum(x) * Sum(y)
        D == VarN2(x)
    IN  FloorDiv(n * A * control[q] + Sum(y) * D - A * Sum(x), n * D)

\* More than this many clean samples are needed for the blend with the
\* control channel.
MinValidForBlend == 10

\* The function with the blend taken from ten clean samples on.
advanced_denoise_signal_from_ten(signal, time, mask, control_signal, aggressive_mode) ==
    LET valid == Where(mask, FALSE)
        blend == /\ aggressive_mode
                 /\ ~control_signal.isNone
                 /\ Len(valid) >= MinValidForBlend
                 /\ VarN2([k \in 1..Len(valid) |-> control_signal.arr[valid[k]]]) > 0
    IN  IF \A i \in 1..Len(mask) : ~mask[i] THEN signal
        ELSE IF Len(valid) < 2 THEN signal
        ELSE [q \in 1..Len(signal) |->
                 IF ~mask[q] THEN signal[q]
                 ELSE IF blend
                 THEN FloorDiv(7 * PredictAt(signal, control_signal.arr, valid, q)
                                   + 3 * InterpAt(signal, time, valid, q), 10)
                 ELSE InterpAt(signal, time, valid, q)]

\* advanced_denoise_signal(signal, time, artifact_mask, control_signal,
\* aggressive_mode), all arrays of one length; control_signal is None or
\* an array.  linregress raises when the clean control samples are all
\* equal, and the except falls back to the interpolation.
advanced_denoise_signal(signal, time, mask, control_signal, aggressive_mode) ==
    LET valid == Where(mask, FALSE)
        blend == /\ aggressive_mode
                 /\ ~control_signal.isNone
                 /\ Len(valid) > MinValidForBlend
                 /\ VarN2([k \in 1..Len(valid) |-> control_signal.arr[valid[k]]]) > 0
    IN  IF \A i \in 1..Len(mask) : ~mask[i] THEN signal
        ELSE IF Len(valid) < 2 THEN signal
        ELSE [q \in 1..Len(signal) |->
                 IF ~mask[q] THEN signal[q]
                 ELSE IF blend
                 THEN FloorDiv(7 * PredictAt(signal, control_signal.arr, valid, q)
                                   + 3 * InterpAt(signal, time, valid, q), 10)
                 ELSE InterpAt(signal, time, valid, q)]

\* ------------------------------------- process_data_pipeline as one call
\* The stages of a call in which no library routine raises, each on the
\* values the stage before it left.
PipelineDff(motion, c) ==
    LET fitted == c.drift_correction /\ c.drift_degree >= 0
    IN  Once(IF fitted THEN Some(polyfit_curve(motion, c.drift_degree)) ELSE None,
             LAMBDA curve :
                 [drift_curve |-> curve,
                  dff_signal |->
                      Once(IF fitted
                           THEN [i \in 1..Len(motion) |-> motion[i] - curve.arr[i]]
                           ELSE motion,
                           normalize_dff)])

PipelineMotion(sig1, ctl1) ==
    IF ctl1.isNone \/ Len(ctl1.arr) # Len(sig1) THEN sig1
    ELSE Once(fit_bleaching_correction(sig1, ctl1),
              LAMBDA fit : [i \in 1..Len(sig1) |-> sig1[i] - fit[i]])

PipelineFiltered(x, c) ==
    IF x.isNone THEN None
    ELSE butter_filter(x, FilterCutoff(c), c.fs, FilterBtype(c), c.filter_order, "ok").ret

PipelineStages(time, sig0, ctl0, c) ==
    Once(IF ctl0.isNone THEN AllFalse(Len(sig0))
         ELSE detect_artifacts(ctl0.arr, DefaultThreshold10),
         LAMBDA mask :
    Once(PipelineFiltered(Some(sig0), c).arr,
         LAMBDA sig1 :
    Once(PipelineFiltered(ctl0, c),
         LAMBDA ctl1 :
    Once(PipelineMotion(sig1, ctl1),
         LAMBDA motion :
    Once(PipelineDff(motion, c),
         LAMBDA n :
             IF time.isNone THEN Failure
             ELSE DownsampleOutputs(time.arr, n.dff_signal,
                                    IF c.filter_raw_signals THEN sig1 ELSE sig0,
                                    IF c.filter_raw_signals THEN ctl1 ELSE ctl0,
                                    n.drift_curve, mask,
                                    Max2(1, c.downsample_factor)))))))

\* process_data_pipeline(time_raw, signal_raw, control_raw, **c)
process_data_pipeline(time, signal, control, c) ==
    IF signal.isNone \/ Len(signal.arr) = 0 \/ c.fs <= 0 \/ c.low_cutoff >= c.high_cutoff
    THEN Failure
    ELSE Once(CleanNonFinite(signal.arr),
              LAMBDA sig0 :
                  Once(IF control.isNone THEN None
                       ELSE Some(CleanNonFinite(control.arr)),
                       LAMBDA ctl0 : PipelineStages(time, sig0, ctl0, c)))

\* ------------------------------------------------ scipy.signal.find_peaks
\* Positions are those of the sequence (from 1); the index arrays handed
\* back by find_peaks_valleys count from 0 as numpy does.
SetMax(S) == CHOOSE m \in S : \A y \in S : y <= m
SetMin(S) == CHOOSE m \in S : \A y \in S : m <= y
Neg(x) == [i \in 1..Len(x) |-> -x[i]]

\* _local_maxima_1d: a sample, or the middle (rounded down) of a flat run,
\* that is strictly above the sample before and the sample after the run.
\* The first and the last sample are never maxima.
LocalMaxima(x) ==
    LET n == Len(x)
        Runs == {q \in (2..(n - 1)) \X (2..(n - 1)) :
                    /\ q[1] <= q[2]
                    /\ \A i \in q[1]..q[2] : x[i] = x[q[1]]
                    /\ x[q[1] - 1] < x[q[1]]
                    /\ x[q[2] + 1] < x[q[2]]}
    IN  {(q[1] + q[2]) \div 2 : q \in Runs}

\* peak_prominences (wlen None): on each side the window runs from the peak
\* to the nearest higher sample (or the end of the trace); the base is the
\* lowest sample of the window, the occurrence nearest to the peak; the
\* prominence is the height above the higher of the two bases.
peak_prominences(x, p) ==
    LET n == Len(x)
        HL == {i \in 1..(p - 1) : x[i] > x[p]}
        HR == {i \in (p + 1)..n : x[i] > x[p]}
        lo == IF HL = {} THEN 1 ELSE SetMax(HL) + 1
        hi == IF HR = {} THEN n ELSE SetMin(HR) - 1
        left_min == SetMin({x[i] : i \in lo..p})
        right_min == SetMin({x[i] : i \in p..hi})
    IN  [prominence |-> x[p] - Max2(left_min, right_min),
         left_base |-> SetMax({i \in lo..p : x[i] = left_min}),
         right_base |-> SetMin({i \in p..hi : x[i] = right_min})]

\* The selection with the peaks visited from the most to the least prominent.
RECURSIVE SelectByDistance_by_prominence(_, _, _, _)
SelectByDistance_by_prominence(x, keep, todo, distance) ==
    IF todo = {} THEN keep
    ELSE LET prom(k) == peak_prominences(x, k).prominence
             j == CHOOSE c \in todo :
                      \A k \in todo : prom(k) < prom(c) \/ (prom(k) = prom(c) /\ k <= c)
         IN  IF j \notin keep
             THEN SelectByDistance_by_prominence(x, keep, todo \ {j}, distance)
             ELSE SelectByDistance_by_prominence(x,
                                   {k \in keep : k = j \/ Abs(k - j) >= distance},
                                   todo \ {j}, distance)

\* _select_by_peak_distance: peaks are visited from the highest to the
\* lowest (argsort of the heights read from its end, so of equal heights
\* the later one first); a visited peak that is still kept removes every
\* other peak closer than distance samples.
RECURSIVE SelectByDistance(_, _, _, _)
SelectByDistance(x, keep, todo, distance) ==
    IF todo = {} THEN keep
    ELSE LET j == CHOOSE c \in todo :
                      \A k \in todo : x[k] < x[c] \/ (x[k] = x[c] /\ k <= c)
         IN  IF j \notin keep
             THEN SelectByDistance(x, keep, todo \ {j}, distance)
             ELSE SelectByDistance(x,
                                   {k \in keep : k = j \/ Abs(k - j) >= distance},
                                   todo \ {j}, distance)

\* peak_widths (rel_height 0.5) compared with a minimal width: the width is
\* the distance between the two crossings of the level height - prominence/2,
\* each interpolated linearly between the samples around it.  Levels are
\* doubled and the comparison is cross-multiplied to stay in the integers.
WidthAtLeast(x, p, width) ==
    LET pd == peak_prominences(x, p)
        h2 == 2 * x[p] - pd.prominence
        i == SetMax({pd.left_base} \cup {k \in (pd.left_base + 1)..p : 2 * x[k] <= h2})
        j == SetMin({pd.right_base} \cup {k \in p..(pd.right_base - 1) : 2 * x[k] <= h2})
        lcut == 2 * x[i] < h2
        rcut == 2 * x[j] < h2
        a == IF lcut THEN h2 - 2 * x[i] ELSE 0
        b == IF lcut THEN 2 * (x[i + 1] - x[i]) ELSE 1
        c == IF rcut THEN h2 - 2 * x[j] ELSE 0
        d == IF rcut THEN 2 * (x[j - 1] - x[j]) ELSE 1
    IN  (j - i - width) * b * d >= c * b + a * d

\* find_peaks(x, prominence=, width=, distance=): the conditions are applied
\* in the order distance, prominence, width.  width and distance are None
\* or a number of samples; a distance below 1 raises ValueError.
find_peaks(x, prominence, width, distance) ==
    IF ~distance.isNone /\ distance.val < 1
    THEN [raised |-> TRUE, peaks |-> {}]
    ELSE LET all == LocalMaxima(x)
             far == IF distance.isNone THEN all
                    ELSE SelectByDistance(x, all, all, distance.val)
             prominent == {p \in far : peak_prominences(x, p).prominence >= prominence}
             wide == IF width.isNone THEN prominent
                     ELSE {p \in prominent : WidthAtLeast(x, p, width.val)}
         IN  [raised |-> FALSE, peaks |-> wide]

\* --------------------------------------------------- find_peaks_valleys
NoSamples == [isNone |-> TRUE, val |-> 0]
Samples(v) == [isNone |-> FALSE, val |-> v]

\* int(seconds * fs) when seconds is given and positive, else None; seconds
\* in tenths of a second, fs in samples per second.
ToSamples(s10, fs) == IF s10 > 0 THEN Samples((s10 * fs) \div 10) ELSE NoSamples

\* The index array numpy returns: ascending, counted from 0.
IndexArray(S) ==
    [i \in 1..Cardinality(S) |->
        (CHOOSE p \in S : Cardinality({q \in S : q < p}) = i - 1) - 1]

\* The empty dict returned for a missing or empty trace.
EmptyDict == [has |-> FALSE, indices |-> <<>>, times |-> <<>>, amps |-> <<>>]

\* {'indices': idx, 'times': time[idx], 'heights' / 'depths': signal[idx]}
EventDict(idx, time, signal) ==
    [has |-> TRUE,
     indices |-> idx,
     times |-> [i \in 1..Len(idx) |-> time[idx[i] + 1]],
     amps |-> [i \in 1..Len(idx) |-> signal[idx[i] + 1]]]

NoEvents == [raised |-> FALSE, peaks |-> EmptyDict, valleys |-> EmptyDict]
DetectionRaised == [raised |-> TRUE, peaks |-> EmptyDict, valleys |-> EmptyDict]

\* Valleys as the peaks of the trace itself: the negation forgotten.
find_valleys_unnegated(signal, prominence, width, distance) ==
    find_peaks(signal, prominence, width, distance)

\* find_peaks(-signal, ...)
find_valleys(signal, prominence, width, distance) ==
    find_peaks(Neg(signal), prominence, width, distance)

\* find_peaks_valleys(signal, time, fs, prominence, width_s, distance_s).
\* signal and time are None or arrays.  The call raises when find_peaks
\* does, when time is None, and when time is too short for an index.
EventsFound(signal, time, pk, vl) ==
    IF pk.raised \/ vl.raised \/ time.isNone
    THEN DetectionRaised
    ELSE IF \E p \in pk.peaks \cup vl.peaks : p > Len(time.arr)
    THEN DetectionRaised
    ELSE [raised |-> FALSE,
          peaks |-> EventDict(IndexArray(pk.peaks), time.arr, signal.arr),
          valleys |-> EventDict(IndexArray(vl.peaks), time.arr, signal.arr)]
find_peaks_valleys(signal, time, fs, prominence, width_s10, distance_s10) ==
    IF signal.isNone \/ Len(signal.arr) = 0
    THEN NoEvents
    ELSE LET width_samples == ToSamples(width_s10, fs)
             distance_samples == ToSamples(distance_s10, fs)
         IN  Once(find_peaks(signal.arr, prominence, width_samples, distance_samples),
                  LAMBDA pk :
                      Once(find_valleys(signal.arr, prominence, width_samples,
                                        distance_samples),
                           LAMBDA vl : EventsFound(signal, time, pk, vl)))

\* ------------------------------------------------------- event metrics
\* ndarray.any() of an index array: some element is not 0.
AnyIndex(idx) == \E i \in 1..Len(idx) : idx[i] # 0

NoMetrics == [isNone |-> TRUE, area2 |-> <<>>, fwhm |-> <<>>,
              rise_time |-> <<>>, decay_time |-> <<>>]
\* What one pass of the loop appends to each list, when the pass raises
\* before its first append (NanMetric), and when it raises in the area
\* calculation, after fwhm, rise_time and decay_time were appended.
NanMetric == [area2 |-> <<NaN>>, fwhm |-> <<NaN>>, rise_time |-> <<NaN>>,
              decay_time |-> <<NaN>>]
NanAfterWidths(w, r, d) ==
    [area2 |-> <<NaN>>, fwhm |-> <<w, NaN>>, rise_time |-> <<r, NaN>>,
     decay_time |-> <<d, NaN>>]

\* The index array [0, len(signal) - 1] used when the other kind of event
\* is missing or has no non-zero index.
TraceEnds(signal) == <<0, Len(signal) - 1>>

\* Twice trapezoid(sign * (signal[a..b] - level), time[a..b]); a and b
\* count from 0.  sign is 1 for the area under a peak (above the base
\* level) and -1 for the area above a valley (below the peak level).
Trapezoid2(signal, time, a, b, level, sign) ==
    Sum([k \in 1..(b - a) |->
            (time[a + k + 1] - time[a + k])
            * sign * ((signal[a + k] - level) + (signal[a + k + 1] - level))])

\* The same with time[a..b] cut to the two samples time has from a on:
\* the single spacing is broadcast over every pair of signal samples.
Trapezoid2Broadcast(signal, time, a, b, level, sign) ==
    Sum([k \in 1..(b - a) |->
            (time[a + 2] - time[a + 1])
            * sign * ((signal[a + k] - level) + (signal[a + k + 1] - level))])

\* The appends with the rise time taken from the crossing to the peak the
\* wrong way round.
Appended_rise_reversed(e, pre, post, r, d, signal, time, base, sign) ==
    IF d + 1 > Len(time)
    THEN NanMetric
    ELSE LET time_segment_len == Min2(post + 1, Len(time)) - pre
             fwhm == time[d + 1] - time[r + 1]
             rise_time == time[r + 1] - time[e + 1]
             decay_time == time[d + 1] - time[e + 1]
         IN  IF time_segment_len = post - pre + 1
             THEN [area2 |-> <<Trapezoid2(signal, time, pre, post, base, sign)>>,
                   fwhm |-> <<fwhm>>, rise_time |-> <<rise_time>>,
                   decay_time |-> <<decay_time>>]
             ELSE IF time_segment_len = 2
             THEN [area2 |-> <<Trapezoid2Broadcast(signal, time, pre, post, base, sign)>>,
                   fwhm |-> <<fwhm>>, rise_time |-> <<rise_time>>,
                   decay_time |-> <<decay_time>>]
             ELSE NanAfterWidths(fwhm, rise_time, decay_time)

\* The appends of a pass that found its crossings r and d: time[d] raises
\* IndexError before any append; the slice time[pre:post+1] is cut at the
\* end of time, and trapezoid raises ValueError, after the three appends,
\* when its length is neither that of the signal segment nor 2.
Appended(e, pre, post, r, d, signal, time, base, sign) ==
    IF d + 1 > Len(time)
    THEN NanMetric
    ELSE LET time_segment_len == Min2(post + 1, Len(time)) - pre
             fwhm == time[d + 1] - time[r + 1]
             rise_time == time[e + 1] - time[r + 1]
             decay_time == time[d + 1] - time[e + 1]
         IN  IF time_segment_len = post - pre + 1
             THEN [area2 |-> <<Trapezoid2(signal, time, pre, post, base, sign)>>,
                   fwhm |-> <<fwhm>>, rise_time |-> <<rise_time>>,
                   decay_time |-> <<decay_time>>]
             ELSE IF time_segment_len = 2
             THEN [area2 |-> <<Trapezoid2Broadcast(signal, time, pre, post, base, sign)>>,
                   fwhm |-> <<fwhm>>, rise_time |-> <<rise_time>>,
                   decay_time |-> <<decay_time>>]
             ELSE NanAfterWidths(fwhm, rise_time, decay_time)

\* The loop body with the enclosure taken from the farthest event on each
\* side instead of the nearest.
EventMetric_farthest(e, others, signal, time, sign) ==
    LET before == SelectSeq(others, LAMBDA v : v < e)
        after == SelectSeq(others, LAMBDA v : v > e)
    IN  IF ~AnyIndex(before) \/ ~AnyIndex(after)
        THEN NanMetric
        ELSE LET pre == before[1]
                 post == after[Len(after)]
             IN  IF post + 1 > Len(signal)
                 THEN NanMetric
                 ELSE LET sp == sign * signal[pre + 1]
                          sq == sign * signal[post + 1]
                          base == sign * Min2(sp, sq)
                          half2 == base + signal[e + 1]
                          hit(k) == sign * 2 * signal[k + 1] >= sign * half2
                          rise == SelectSeq([i \in 1..(e - pre + 1) |-> pre + i - 1], hit)
                          decay == SelectSeq([i \in 1..(post - e + 1) |-> e + i - 1], hit)
                      IN  IF ~AnyIndex(rise) \/ ~AnyIndex(decay)
                          THEN NanMetric
                          ELSE LET r == rise[1]
                                   d == decay[Len(decay)]
                               IN  Appended(e, pre, post, r, d, signal, time, base, sign)

\* One pass of the loop body of calculate_peak_metrics (sign 1) and of
\* calculate_valley_metrics (sign -1) for the event at index e, enclosed by
\* the events of the other kind in others.  ValueError and IndexError append
\* NaN to every list.  area2 is twice the area.
EventMetric(e, others, signal, time, sign) ==
    LET before == SelectSeq(others, LAMBDA v : v < e)
        after == SelectSeq(others, LAMBDA v : v > e)
    IN  IF ~AnyIndex(before) \/ ~AnyIndex(after)
        THEN NanMetric
        ELSE LET pre == before[Len(before)]
                 post == after[1]
             IN  IF post + 1 > Len(signal)
                 THEN NanMetric
                 ELSE LET sp == sign * signal[pre + 1]
                          sq == sign * signal[post + 1]
                          base == sign * Min2(sp, sq)
                          half2 == base + signal[e + 1]
                          hit(k) == sign * 2 * signal[k + 1] >= sign * half2
                          rise == SelectSeq([i \in 1..(e - pre + 1) |-> pre + i - 1], hit)
                          decay == SelectSeq([i \in 1..(post - e + 1) |-> e + i - 1], hit)
                      IN  IF ~AnyIndex(rise) \/ ~AnyIndex(decay)
                          THEN NanMetric
                          ELSE LET r == rise[1]
                                   d == decay[Len(decay)]
                               IN  Appended(e, pre, post, r, d, signal, time, base, sign)

\* The lists after the loop: what each pass appended, in event order.
RECURSIVE Appends(_, _)
Appends(passes, k) ==
    IF Len(passes) = 0 THEN <<>>
    ELSE Appends(SubSeq(passes, 1, Len(passes) - 1), k) \o passes[Len(passes)][k]

MetricsOf(events, others, signal, time, sign) ==
    LET passes == [i \in 1..Len(events) |->
                      EventMetric(events[i], others, signal, time, sign)]
    IN  [isNone |-> FALSE,
         area2 |-> Appends(passes, "area2"),
         fwhm |-> Appends(passes, "fwhm"),
         rise_time |-> Appends(passes, "rise_time"),
         decay_time |-> Appends(passes, "decay_time")]

\* calculate_peak_metrics(peak_data, valley_data, signal, time)
calculate_peak_metrics(peak_data, valley_data, signal, time) ==
    IF ~peak_data.has \/ ~AnyIndex(peak_data.indices)
    THEN NoMetrics
    ELSE LET valley_indices ==
                 IF valley_data.has /\ AnyIndex(valley_data.indices)
                 THEN valley_data.indices ELSE TraceEnds(signal)
         IN  MetricsOf(peak_data.indices, valley_indices, signal, time, 1)

\* calculate_valley_metrics(peak_data, valley_data, signal, time): area2 is
\* twice area_above; its result has no rise_time and decay_time.
calculate_valley_metrics(peak_data, valley_data, signal, time) ==
    IF ~valley_data.has \/ ~AnyIndex(valley_data.indices)
    THEN NoMetrics
    ELSE LET peak_indices ==
                 IF peak_data.has /\ AnyIndex(peak_data.indices)
                 THEN peak_data.indices ELSE TraceEnds(signal)
             ms == MetricsOf(valley_data.indices, peak_indices, signal, time, -1)
         IN  [isNone |-> FALSE, area2 |-> ms.area2, fwhm |-> ms.fwhm,
              rise_time |-> <<>>, decay_time |-> <<>>]

\* ------------------------------------------- find_peaks_valleys: calls
PkLen == 6
Levels == {0, 1, 2}

VARIABLES
    pk_signal,  \* the signal argument
    pk_time,    \* the time argument
    pk_args,    \* fs, prominence, width_s, distance_s
    pk_out      \* "none" before the call, then what the call did

pkVars == <<pk_signal, pk_time, pk_args, pk_out>>

RECURSIVE Traces(_)
Traces(n) ==
    IF n = 0 THEN {<<>>}
    ELSE {Append(t, v) : t \in Traces(n - 1), v \in Levels}

\* A time axis with a start and a step that are not 0 and 1.
Clock(n) == [i \in 1..n |-> 5 + 3 * (i - 1)]

NotCalled == [raised |-> FALSE, peaks |-> EmptyDict, valleys |-> EmptyDict, called |-> FALSE]

\* Traces with a low and two high levels, where a peak can be higher and
\* less prominent than its neighbour.
TallLen == 5
TallTraces == [1..TallLen -> {0, 2, 3}]

\* Every trace of up to PkLen samples over the levels, and no trace;
\* the time axis of the trace, or one two samples short.
PeaksInit ==
    /\ \/ \E n \in 0..PkLen :
            /\ pk_signal \in {None} \cup {Some(t) : t \in Traces(n)}
            /\ pk_time \in {Some(Clock(n)), Some(Clock(Max2(n - 2, 0)))}
       \/ /\ pk_signal \in {Some(t) : t \in TallTraces}
          /\ pk_time = Some(Clock(TallLen))
    /\ pk_args \in [fs : {1, 2}, prominence : {1, 2},
                    width_s10 : {0, 20}, distance_s10 : {0, 5, 20}]
    /\ pk_out = NotCalled

PeaksUnused ==
    /\ pk_signal = None
    /\ pk_time = None
    /\ pk_args = [fs |-> 1, prominence |-> 1, width_s10 |-> 0, distance_s10 |-> 0]
    /\ pk_out = NotCalled

FindPeaksValleysCall ==
    /\ ~pk_out.called
    /\ LET r == find_peaks_valleys(pk_signal, pk_time, pk_args.fs, pk_args.prominence,
                                   pk_args.width_s10, pk_args.distance_s10)
       IN  pk_out' = [raised |-> r.raised, peaks |-> r.peaks, valleys |-> r.valleys,
                      called |-> TRUE]
    /\ UNCHANGED <<pk_signal, pk_time, pk_args>>

\* ------------------------------------------- PhotometryViewer: the host
MaxOps == 3         \* handlers run in a session
MaxWorkers == 1     \* process_and_update threads started and not yet run

VARIABLES
    primary_data,       \* the primary dataset (a dict), or not loaded
    secondary_data,     \* the secondary dataset, or not loaded
    params,             \* the values of the controls
    blanking_regions,   \* self.blanking_regions
    workers,            \* process_and_update threads started, not yet run
    ops                 \* handlers run so far

hostVars == <<primary_data, secondary_data, params, blanking_regions, workers, ops>>

\* What clear_peaks / clear_valleys store, and what a loaded file holds.
ClearedEvents == [has |-> TRUE, indices |-> <<>>, times |-> <<>>, amps |-> <<>>]

NotLoaded ==
    [loaded |-> FALSE, fs |-> 0, time_raw |-> <<>>, analog_1_raw |-> <<>>,
     analog_2_raw |-> <<>>, time |-> None, dff |-> None, raw1 |-> None, raw2 |-> None,
     fit |-> None, artifact_mask |-> None,
     peaks |-> ClearedEvents, peak_metrics |-> NoMetrics,
     valleys |-> ClearedEvents, valley_metrics |-> NoMetrics]

\* parse_ppd_data: the moving-average baseline over a window of one second
\* and the dF/F against it, in percent.
LoadedBaselineSum(a, i, fs) ==
    LET lo == Max2(1, i - fs \div 2)
        hi == Min2(Len(a), i + fs \div 2)
    IN  [sum |-> Sum([k \in 1..(hi - lo + 1) |-> a[lo + k - 1]]), count |-> hi - lo + 1]
LoadedBaseline(a, fs) ==
    [i \in 1..Len(a) |->
        FloorDiv(LoadedBaselineSum(a, i, fs).sum, LoadedBaselineSum(a, i, fs).count)]
LoadedDff(a, fs) ==
    [i \in 1..Len(a) |->
        LET b == LoadedBaselineSum(a, i, fs)
        IN  FloorDiv((a[i] * b.count - b.sum) * 100, b.sum)]

\* The dict parse_ppd_data returns for a recording sampled at fs.
Loaded(a1, a2, fs) ==
    [loaded |-> TRUE, fs |-> fs,
     time_raw |-> [i \in 1..Len(a1) |-> ((i - 1) * 10) \div fs],
     analog_1_raw |-> a1, analog_2_raw |-> a2,
     time |-> Some([i \in 1..Len(a1) |-> ((i - 1) * 10) \div fs]),
     dff |-> Some(LoadedDff(a1, fs)),
     raw1 |-> Some(a1), raw2 |-> Some(a2),
     fit |-> Some(LoadedBaseline(a1, fs)),
     artifact_mask |-> Some(AllFalse(Len(a1))),
     peaks |-> ClearedEvents, peak_metrics |-> NoMetrics,
     valleys |-> ClearedEvents, valley_metrics |-> NoMetrics]

\* Two recordings of nine samples; the reference channel of each has one
\* outlier, which detect_artifacts flags.
Recording1 == Loaded(<<40, 90, 30, 80, 20, 70, 50, 95, 45>>,
                     <<40, 50, 40, 50, 40, 300, 50, 40, 50>>, 10)
Recording2 == Loaded(<<60, 20, 70, 30, 85, 40, 75, 35, 65>>,
                     <<50, 40, 300, 40, 50, 40, 50, 40, 50>>, 10)

\* The values each control can be set to.
ControlValues ==
    [filter_type |-> {"Lowpass", "Highpass"},
     low_cutoff |-> {1, 2},
     downsample_factor |-> {1, 2},
     prominence |-> {5, 50},
     width_s10 |-> {0, 10},
     distance_s10 |-> {0, 30},
     analysis_signal_source |-> {"Primary", "Secondary"},
     time_shift_s10 |-> {0, 20},
     denoise_aggressive |-> {TRUE, FALSE}]

\* The arguments process_and_update passes to process_data_pipeline.
PipelineConfig(d) ==
    [fs |-> d.fs, low_cutoff |-> params.low_cutoff, high_cutoff |-> 2,
     filter_type |-> params.filter_type, filter_order |-> 1,
     drift_correction |-> TRUE, drift_degree |-> 1,
     downsample_factor |-> params.downsample_factor, filter_raw_signals |-> TRUE]

HostInit ==
    /\ primary_data = Recording1
    /\ secondary_data \in {NotLoaded, Recording2}
    /\ params = [filter_type |-> "Lowpass", low_cutoff |-> 1, downsample_factor |-> 1,
                 prominence |-> 5, width_s10 |-> 0, distance_s10 |-> 0,
                 analysis_signal_source |-> "Primary", time_shift_s10 |-> 0,
                 denoise_aggressive |-> TRUE]
    /\ blanking_regions = <<>>
    /\ workers = 0
    /\ ops = 0

HostUnused ==
    /\ primary_data = NotLoaded
    /\ secondary_data = NotLoaded
    /\ params = [filter_type |-> "Lowpass", low_cutoff |-> 1, downsample_factor |-> 1,
                 prominence |-> 5, width_s10 |-> 0, distance_s10 |-> 0,
                 analysis_signal_source |-> "Primary", time_shift_s10 |-> 0,
                 denoise_aggressive |-> TRUE]
    /\ blanking_regions = <<>>
    /\ workers = 0
    /\ ops = 0

\* ---------------------------------------- PhotometryViewer: handlers
\* clear_peaks / clear_valleys on one dataset ("if self.primary_data:").
ClearPeaks(d) ==
    IF d.loaded THEN [d EXCEPT !.peaks = ClearedEvents, !.peak_metrics = NoMetrics] ELSE d
ClearValleys(d) ==
    IF d.loaded THEN [d EXCEPT !.valleys = ClearedEvents, !.valley_metrics = NoMetrics] ELSE d

\* update_filter on the main thread: nothing without a primary dataset;
\* else both kinds of detection are cleared on both datasets and one
\* process_and_update thread is started.
update_filter(d) == IF primary_data.loaded THEN ClearValleys(ClearPeaks(d)) ELSE d
ThreadsStarted == IF primary_data.loaded THEN 1 ELSE 0

UpdateFilter ==
    /\ ops < MaxOps
    /\ workers < MaxWorkers
    /\ primary_data' = update_filter(primary_data)
    /\ secondary_data' = update_filter(secondary_data)
    /\ workers' = workers + ThreadsStarted
    /\ ops' = ops + 1
    /\ UNCHANGED <<params, blanking_regions>>

\* The body of process_and_update for one dataset: the pipeline is called
\* with the controls as they are when the thread runs, and its six values
\* are stored whatever they are.
StoreProcessed(d) ==
    IF ~d.loaded THEN d
    ELSE Once(process_data_pipeline(Some(d.time_raw), Some(d.analog_1_raw),
                                    Some(d.analog_2_raw), PipelineConfig(d)),
              LAMBDA r :
                  [d EXCEPT !.time = r.time_ds, !.dff = r.dff_ds, !.raw1 = r.raw1_ds,
                            !.raw2 = r.raw2_ds, !.fit = r.drift_ds,
                            !.artifact_mask = r.artifact_mask_ds])

\* A process_and_update thread runs.
ProcessAndUpdate ==
    /\ workers > 0
    /\ primary_data' = StoreProcessed(primary_data)
    /\ secondary_data' = StoreProcessed(secondary_data)
    /\ workers' = workers - 1
    /\ UNCHANGED <<params, blanking_regions, ops>>

\* run_detection(mode) on the dataset it selected.  Nothing is stored when
\* the dataset has no dff or find_peaks_valleys raises; an empty dict is
\* stored before the KeyError its missing 'indices' causes.
StoreDetection(d, mode, r) ==
    IF r.raised THEN d
    ELSE IF mode = "Peak"
    THEN IF ~r.peaks.has THEN [d EXCEPT !.peaks = r.peaks]
         ELSE [d EXCEPT !.peaks = r.peaks,
                        !.peak_metrics =
                            IF Len(r.peaks.indices) > 0
                            THEN calculate_peak_metrics(r.peaks, r.valleys,
                                                        d.dff.arr, d.time.arr)
                            ELSE NoMetrics]
    ELSE IF ~r.valleys.has THEN [d EXCEPT !.valleys = r.valleys]
         ELSE [d EXCEPT !.valleys = r.valleys,
                        !.valley_metrics =
                            IF Len(r.valleys.indices) > 0
                            THEN calculate_valley_metrics(r.peaks, r.valleys,
                                                          d.dff.arr, d.time.arr)
                            ELSE NoMetrics]
run_detection(d, mode) ==
    IF ~d.loaded \/ d.dff.isNone THEN d
    ELSE Once(find_peaks_valleys(d.dff, d.time, d.fs, params.prominence,
                                 params.width_s10, params.distance_s10),
              LAMBDA r : StoreDetection(d, mode, r))

RunDetection ==
    /\ ops < MaxOps
    /\ \E mode \in {"Peak", "Valley"} :
         IF params.analysis_signal_source = "Primary"
         THEN /\ primary_data' = run_detection(primary_data, mode)
              /\ UNCHANGED secondary_data
         ELSE /\ secondary_data' = run_detection(secondary_data, mode)
              /\ UNCHANGED primary_data
    /\ ops' = ops + 1
    /\ UNCHANGED <<params, blanking_regions, workers>>

\* run_advanced_denoising on one dataset: dff is replaced, nothing else.
Denoised(d) ==
    IF ~d.loaded \/ d.dff.isNone THEN d
    ELSE [d EXCEPT !.dff = Some(advanced_denoise_signal(d.dff.arr, d.time.arr,
                                                        d.artifact_mask.arr, d.raw2,
                                                        params.denoise_aggressive))]

RunAdvancedDenoising ==
    /\ ops < MaxOps
    /\ primary_data' = Denoised(primary_data)
    /\ secondary_data' = Denoised(secondary_data)
    /\ ops' = ops + 1
    /\ UNCHANGED <<params, blanking_regions, workers>>

\* apply_time_shift: the secondary time axes are shifted; None + shift
\* raises and leaves the dataset as it was.
ApplyTimeShift ==
    /\ ops < MaxOps
    /\ LET shift == params.time_shift_s10
           d == secondary_data
       IN  secondary_data' =
               IF ~d.loaded \/ shift = 0 \/ d.time.isNone THEN d
               ELSE [d EXCEPT
                       !.time = Some([i \in 1..Len(d.time.arr) |-> d.time.arr[i] + shift]),
                       !.time_raw = [i \in 1..Len(d.time_raw) |-> d.time_raw[i] + shift]]
    /\ ops' = ops + 1
    /\ UNCHANGED <<primary_data, params, blanking_regions, workers>>

\* A change of one control: a Tk variable is set, no handler runs.
SetControl ==
    /\ ops < MaxOps
    /\ \E name \in DOMAIN ControlValues :
         \E v \in ControlValues[name] :
             /\ v # params[name]
             /\ params' = [params EXCEPT ![name] = v]
    /\ ops' = ops + 1
    /\ UNCHANGED <<primary_data, secondary_data, blanking_regions, workers>>

\* clear_detection(mode)
ClearDetection ==
    /\ ops < MaxOps
    /\ \E mode \in {"Peak", "Valley"} :
         IF mode = "Peak"
         THEN /\ primary_data' = ClearPeaks(primary_data)
              /\ secondary_data' = ClearPeaks(secondary_data)
         ELSE /\ primary_data' = ClearValleys(primary_data)
              /\ secondary_data' = ClearValleys(secondary_data)
    /\ ops' = ops + 1
    /\ UNCHANGED <<params, blanking_regions, workers>>

\* ------------------------------------------- PhotometryViewer: blanking
MaxRegions == 1     \* blanking regions added in a session

\* One region of reapply_all_blanking on one dff: the samples with
\* start <= time <= end are replaced by np.linspace from the last sample
\* before the region to the first sample after it, when both exist.
BlankRegion(dff, time, region) ==
    LET inside == Where([i \in 1..Len(time) |->
                            time[i] >= region.start /\ time[i] <= region.end], TRUE)
        pre == Where([i \in 1..Len(time) |-> time[i] < region.start], TRUE)
        post == Where([i \in 1..Len(time) |-> time[i] > region.end], TRUE)
        count == Len(inside)
    IN  IF count = 0 \/ Len(pre) = 0 \/ Len(post) = 0 THEN dff
        ELSE LET start_val == dff[pre[Len(pre)]]
                 end_val == dff[post[1]]
                 ramp(k) == IF count = 1 THEN start_val
                            ELSE start_val + FloorDiv((end_val - start_val) * (k - 1),
                                                      count - 1)
             IN  [i \in 1..Len(dff) |->
                     IF time[i] >= region.start /\ time[i] <= region.end
                     THEN ramp(Cardinality({j \in 1..i : time[j] >= region.start
                                                          /\ time[j] <= region.end}))
                     ELSE dff[i]]

RECURSIVE BlankAll(_, _, _, _)
BlankAll(dff, time, regions, k) ==
    IF k > Len(regions) THEN dff
    ELSE BlankAll(BlankRegion(dff, time, regions[k]), time, regions, k + 1)

\* reapply_all_blanking on one dataset, with the regions given.
reapply_all_blanking(d, regions) ==
    IF ~d.loaded \/ d.dff.isNone THEN d
    ELSE [d EXCEPT !.dff = Some(BlankAll(d.dff.arr, d.time.arr, regions, 1))]

\* The assistant's apply_blanking: the region is appended, then
\* reapply_all_blanking and update_filter run on the main thread.
ApplyBlanking ==
    /\ ops < MaxOps
    /\ workers < MaxWorkers
    /\ Len(blanking_regions) < MaxRegions
    /\ \E region \in {[start |-> 2, end |-> 4], [start |-> 6, end |-> 6]} :
         /\ blanking_regions' = Append(blanking_regions, region)
         /\ primary_data' =
                update_filter(reapply_all_blanking(primary_data, blanking_regions'))
         /\ secondary_data' =
                update_filter(reapply_all_blanking(secondary_data, blanking_regions'))
    /\ workers' = workers + ThreadsStarted
    /\ ops' = ops + 1
    /\ UNCHANGED params

\* on_blanking_release: "if not time" raises for an array of more than one
\* sample and returns for None, so the handler ends before it stores a
\* region or reapplies any.
OnBlankingRelease ==
    /\ ops < MaxOps
    /\ ops' = ops + 1
    /\ UNCHANGED <<primary_data, secondary_data, params, blanking_regions, workers>>

\* clear_all_blanking
ClearAllBlanking ==
    /\ ops < MaxOps
    /\ workers < MaxWorkers
    /\ blanking_regions' = <<>>
    /\ primary_data' = update_filter(primary_data)
    /\ secondary_data' = update_filter(secondary_data)
    /\ workers' = workers + ThreadsStarted
    /\ ops' = ops + 1
    /\ UNCHANGED params

\* ------------------------------------------- event metrics: calls
\* run_detection's sequence on one trace: find_peaks_valleys, then
\* calculate_peak_metrics and calculate_valley_metrics on what it returned.
MtLen == 7

VARIABLES
    mt_signal,          \* data['dff']
    mt_time,            \* data['time']
    mt_args,            \* prominence, distance_s
    mt_events,          \* what find_peaks_valleys returned
    mt_peak_metrics,    \* what calculate_peak_metrics returned
    mt_valley_metrics,  \* what calculate_valley_metrics returned
    mt_pc               \* "detect", "measure", "done"

mtVars == <<mt_signal, mt_time, mt_args, mt_events, mt_peak_metrics, mt_valley_metrics, mt_pc>>

MetricsIdle ==
    /\ mt_events = NoEvents
    /\ mt_peak_metrics = NoMetrics
    /\ mt_valley_metrics = NoMetrics
    /\ mt_pc = "detect"

\* Traces with a peak between two valleys at level 0 whose flanks run
\* over the levels above, so that a flank can dip and rise again.
RuggedLen == 3
RuggedTraces == {<<3, 0>> \o mid \o <<0, 3>> : mid \in [1..RuggedLen -> {1, 2, 3}]}

\* Every trace of up to MtLen samples over the levels and the rugged
\* traces, sampled once a second.
MetricsInit ==
    /\ \/ \E n \in 1..MtLen : mt_signal \in Traces(n)
       \/ mt_signal \in RuggedTraces
    /\ mt_time = Clock(Len(mt_signal))
    /\ mt_args \in [prominence : {1, 2}, distance_s10 : {0, 20}]
    /\ MetricsIdle

MetricsUnused ==
    /\ mt_signal = <<>>
    /\ mt_time = <<>>
    /\ mt_args = [prominence |-> 1, distance_s10 |-> 0]
    /\ MetricsIdle

\* main_window.py line 379
DetectEvents ==
    /\ mt_pc = "detect"
    /\ mt_events' = find_peaks_valleys(Some(mt_signal), Some(mt_time), 1,
                                       mt_args.prominence, 0, mt_args.distance_s10)
    /\ mt_pc' = IF mt_events'.raised THEN "done" ELSE "measure"
    /\ UNCHANGED <<mt_signal, mt_time, mt_args, mt_peak_metrics, mt_valley_metrics>>

\* main_window.py lines 386 and 417
MeasureEvents ==
    /\ mt_pc = "measure"
    /\ mt_peak_metrics' =
           calculate_peak_metrics(mt_events.peaks, mt_events.valleys,
                                  mt_signal, mt_time)
    /\ mt_valley_metrics' =
           calculate_valley_metrics(mt_events.peaks, mt_events.valleys,
                                    mt_signal, mt_time)
    /\ mt_pc' = "done"
    /\ UNCHANGED <<mt_signal, mt_time, mt_args, mt_events>>

\* calculate_peak_metrics and calculate_valley_metrics called with a time
\* argument of fewer samples than the signal: the events are those
\* find_peaks_valleys found on the signal with its own axis, the time
\* argument is that axis without its last samples.
MaxCut == 3
MeasureInit ==
    /\ mt_signal \in RuggedTraces
    /\ \E cut \in 0..MaxCut : mt_time = Clock(Len(mt_signal) - cut)
    /\ mt_args \in [prominence : {1, 2}, distance_s10 : {0}]
    /\ mt_events = find_peaks_valleys(Some(mt_signal), Some(Clock(Len(mt_signal))), 1,
                                      mt_args.prominence, 0, mt_args.distance_s10)
    /\ mt_peak_metrics = NoMetrics
    /\ mt_valley_metrics = NoMetrics
    /\ mt_pc = "measure"

\* ------------------------------------ PhotometryViewer.generate_psth
\* Times are in half seconds; positions on the relative time grid are kept
\* doubled, so that the centre of a bin (edge + bin_size / 2) is an integer.
PsLen == 6

VARIABLES
    ps_time,     \* data['time']
    ps_signal,   \* data['dff']
    ps_events,   \* data['peaks']['times'] or data['valleys']['times']
    ps_params,   \* pre_time, post_time, bin_size
    ps_out       \* what the handler plotted, or the message it showed

psVars == <<ps_time, ps_signal, ps_events, ps_params, ps_out>>

\* np.searchsorted(a, v): how many elements of the ascending a are below v.
searchsorted(a, v) == Cardinality({i \in 1..Len(a) : a[i] < v})

\* np.interp(x, xp, fp) for ascending xp, x and xp doubled: the end values
\* outside xp, the line between the two knots around x inside it.
np_interp(x2, xp2, fp) ==
    LET n == Len(xp2)
    IN  IF x2 <= xp2[1] THEN fp[1]
        ELSE IF x2 >= xp2[n] THEN fp[n]
        ELSE LET k == SetMax({i \in 1..(n - 1) : xp2[i] <= x2})
             IN  fp[k] + FloorDiv((fp[k + 1] - fp[k]) * (x2 - xp2[k]),
                                  xp2[k + 1] - xp2[k])

\* time_bins[:-1] + bin_size / 2 for time_bins = np.arange(-pre_time,
\* post_time + bin_size, bin_size), doubled.
BinCentres2(pre_time, post_time, bin_size) ==
    LET edges == (pre_time + post_time + 2 * bin_size - 1) \div bin_size
    IN  [k \in 1..(edges - 1) |-> 2 * (-pre_time + (k - 1) * bin_size) + bin_size]

\* The mask with the test against the end of the trace only.
valid_events_end_only(event_times, time, pre_time, post_time) ==
    SelectSeq(event_times, LAMBDA t : t <= time[Len(time)] - post_time)

\* event_times[valid_events] of lines 1405-1413; time is ascending, so its
\* minimum and maximum are its first and last element.
valid_events(event_times, time, pre_time, post_time) ==
    SelectSeq(event_times,
              LAMBDA t : t >= time[1] + pre_time /\ t <= time[Len(time)] - post_time)

\* One pass of the loop of lines 1423-1439 for event_time: whether a row is
\* appended to psth_matrix, and the row.
PsthRow(event_time, time, signal, pre_time, post_time, bin_size) ==
    LET start_idx == searchsorted(time, event_time - pre_time)
        end_idx == searchsorted(time, event_time + post_time)
        rel2 == [i \in 1..(end_idx - start_idx) |-> 2 * (time[start_idx + i] - event_time)]
        seg == [i \in 1..(end_idx - start_idx) |-> signal[start_idx + i]]
        centres == BinCentres2(pre_time, post_time, bin_size)
    IN  IF end_idx >= Len(time) THEN [used |-> FALSE, row |-> <<>>]
        ELSE IF Len(rel2) > 1
        THEN [used |-> TRUE,
              row |-> [k \in 1..Len(centres) |-> np_interp(centres[k], rel2, seg)]]
        ELSE [used |-> FALSE, row |-> <<>>]

NoPsth == [status |-> "none", used |-> <<>>, psth_matrix |-> <<>>, valid_events |-> 0]
PsthInfo == [status |-> "info", used |-> <<>>, psth_matrix |-> <<>>, valid_events |-> 0]

\* generate_psth from the validation of the event times on (lines
\* 1385-1448): the events whose row entered psth_matrix, the matrix and the
\* count shown as n, or the message shown instead.
generate_psth(event_times, time, signal, pre_time, post_time, bin_size) ==
    IF Len(event_times) = 0 \/ Len(time) = 0 \/ Len(signal) = 0 THEN PsthInfo
    ELSE LET kept == valid_events(event_times, time, pre_time, post_time)
             rows == [i \in 1..Len(kept) |->
                         PsthRow(kept[i], time, signal, pre_time, post_time, bin_size)]
             idx == SelectSeq([i \in 1..Len(kept) |-> i], LAMBDA i : rows[i].used)
         IN  IF Len(kept) = 0 \/ Len(idx) = 0 THEN PsthInfo
             ELSE [status |-> "plotted",
                   used |-> [j \in 1..Len(idx) |-> kept[idx[j]]],
                   psth_matrix |-> [j \in 1..Len(idx) |-> rows[idx[j]].row],
                   valid_events |-> Len(idx)]

\* A trace of n samples every dt half seconds from half a second on.
Grid(n, dt) == [i \in 1..n |-> 1 + dt * (i - 1)]

\* Traces sampled every 1 s or 1.5 s, any set of their sample times as the
\* events, windows of 1 to 2 s on each side, bins of 0.5 s or 1 s.
PsthInit ==
    /\ \E n \in 2..PsLen, dt \in {2, 3} :
          /\ ps_time = Grid(n, dt)
          /\ ps_signal = Wave(n)
          /\ \E S \in SUBSET (1..n) :
                ps_events = [i \in 1..Cardinality(S) |-> ps_time[IndexArray(S)[i] + 1]]
    /\ ps_params \in [pre_time : {2, 3, 4}, post_time : {2, 3, 4}, bin_size : {1, 2}]
    /\ ps_out = NoPsth

PsthUnused ==
    /\ ps_time = <<>>
    /\ ps_signal = <<>>
    /\ ps_events = <<>>
    /\ ps_params = [pre_time |-> 2, post_time |-> 2, bin_size |-> 1]
    /\ ps_out = NoPsth

GeneratePsth ==
    /\ ps_out.status = "none"
    /\ ps_out' = generate_psth(ps_events, ps_time, ps_signal, ps_params.pre_time,
                               ps_params.post_time, ps_params.bin_size)
    /\ UNCHANGED <<ps_time, ps_signal, ps_events, ps_params>>

\* ------------------------------------------------- calculate_intervals
IvLen == 4

VARIABLES
    iv_times,   \* the times argument
    iv_out      \* what the call returned

ivVars == <<iv_times, iv_out>>

\* np.diff
np_diff(s) == [i \in 1..(Len(s) - 1) |-> s[i + 1] - s[i]]

NoIntervals == [isNone |-> TRUE, intervals |-> <<>>, count |-> 0, mean_sum |-> 0,
                median2 |-> 0, std_n2 |-> 0, min |-> 0, max |-> 0]

\* The dict of lines 104-112 for the array intervals.  The mean is
\* mean_sum / count, the median median2 / 2 and the standard deviation the
\* square root of std_n2 / count^2.
IntervalStats(intervals) ==
    [isNone |-> FALSE,
     intervals |-> intervals,
     count |-> Len(intervals),
     mean_sum |-> Sum(intervals),
     median2 |-> median2(intervals),
     std_n2 |-> VarN2(intervals),
     min |-> SetMin({intervals[i] : i \in 1..Len(intervals)}),
     max |-> SetMax({intervals[i] : i \in 1..Len(intervals)})]

\* The differences of the times in the order given.
calculate_intervals_unsorted(times) ==
    IF times.isNone \/ Len(times.arr) < 2 THEN NoIntervals
    ELSE IntervalStats(np_diff(times.arr))

\* calculate_intervals(times); times is None or an array.
calculate_intervals(times) ==
    IF times.isNone \/ Len(times.arr) < 2 THEN NoIntervals
    ELSE IntervalStats(np_diff(np_sort(times.arr)))

EventTimes == {0, 1, 3, 6, 10}
RECURSIVE TimeLists(_)
TimeLists(n) ==
    IF n = 0 THEN {<<>>}
    ELSE {Append(t, v) : t \in TimeLists(n - 1), v \in EventTimes}

NotAnalyzed == [called |-> FALSE, ret |-> NoIntervals]

\* No times, or up to IvLen event times in any order, repeats included.
IntervalsInit ==
    /\ \E n \in 0..IvLen : iv_times \in {None} \cup {Some(t) : t \in TimeLists(n)}
    /\ iv_out = NotAnalyzed

IntervalsUnused ==
    /\ iv_times = None
    /\ iv_out = NotAnalyzed

CalculateIntervalsCall ==
    /\ ~iv_out.called
    /\ iv_out' = [called |-> TRUE, ret |-> calculate_intervals(iv_times)]
    /\ UNCHANGED iv_times

\* ----------------------------------------------- detect_artifacts: calls
DaLen == 5

VARIABLES
    da_control,      \* the control_signal argument of both calls
    da_thresholds,   \* the threshold of the first and of the second call
    da_masks         \* the masks returned so far

daVars == <<da_control, da_thresholds, da_masks>>

Readings == {0, 1, 2, 5}
RECURSIVE ReadingLists(_)
ReadingLists(n) ==
    IF n = 0 THEN {<<>>}
    ELSE {Append(t, v) : t \in ReadingLists(n - 1), v \in Readings}

\* Thresholds in tenths: -1.0, 0, 0.5, 3.0 (the default) and 6.0.
Thresholds10 == {-10, 0, 5, DefaultThreshold10, 60}

\* Every reference trace of up to DaLen readings and two thresholds, the
\* first below the second.
ArtifactsInit ==
    /\ \E n \in 0..DaLen : da_control \in ReadingLists(n)
    /\ da_thresholds \in {p \in Thresholds10 \X Thresholds10 : p[1] < p[2]}
    /\ da_masks = <<>>

ArtifactsUnused ==
    /\ da_control = <<>>
    /\ da_thresholds = <<0, DefaultThreshold10>>
    /\ da_masks = <<>>

DetectArtifactsCall ==
    /\ Len(da_masks) < 2
    /\ da_masks' = Append(da_masks,
                          detect_artifacts(da_control, da_thresholds[Len(da_masks) + 1]))
    /\ UNCHANGED <<da_control, da_thresholds>>

\* ---------------------------------------- advanced_denoise_signal: calls
DnLen == 12

VARIABLES
    dn_signal,   \* the caller's signal array
    dn_args,     \* the arguments passed: signal, artifact_mask, control_signal, aggressive_mode
    dn_out       \* what the call returned

dnVars == <<dn_signal, dn_args, dn_out>>

\* The caller's array after a call that handed it in and got denoised
\* back, had the function written into the array it was given.
SignalAfterCall_alias(signal, denoised) == denoised

\* The caller's array after the call: signal.copy() (lines 144, 146, 150)
\* gives the function an array of its own to write into.
SignalAfterCall(signal, denoised) == signal

RECURSIVE Masks(_)
Masks(n) ==
    IF n = 0 THEN {<<>>}
    ELSE {Append(m, b) : m \in Masks(n - 1), b \in BOOLEAN}

NotDenoised == [called |-> FALSE, ret |-> <<>>]

\* A trace of up to DnLen samples with any artifact mask, with and without
\* a reference, in normal and in aggressive mode.
DenoiseInit ==
    /\ \E n \in 1..DnLen :
          /\ dn_signal = Wave(n)
          /\ dn_args \in [signal : {Wave(n)}, artifact_mask : Masks(n),
                          control_signal : {None, Some(Ref(n))},
                          aggressive_mode : BOOLEAN]
    /\ dn_out = NotDenoised

DenoiseUnused ==
    /\ dn_signal = <<>>
    /\ dn_args = [signal |-> <<>>, artifact_mask |-> <<>>, control_signal |-> None,
                  aggressive_mode |-> FALSE]
    /\ dn_out = NotDenoised

AdvancedDenoiseCall ==
    /\ ~dn_out.called
    /\ dn_out' = [called |-> TRUE,
                  ret |-> advanced_denoise_signal(dn_signal, Ticks(Len(dn_signal)),
                                                  dn_args.artifact_mask,
                                                  dn_args.control_signal,
                                                  dn_args.aggressive_mode)]
    /\ dn_signal' = SignalAfterCall(dn_signal, dn_out'.ret)
    /\ UNCHANGED dn_args

\* --------------------------- process_data_pipeline: two calls in flight
\* Two callers, each with buffers of its own, run process_data_pipeline at
\* the same time; a step of the execution is one stage of one call.  The
\* function keeps everything it computes in local variables, so each call
\* has the locals of its own frame; the modules hold no variable that a
\* call writes.
Callers == {1, 2}

VARIABLES
    cc_args,     \* per caller: time_raw, signal_raw, control_raw and the keyword arguments
    cc_frames    \* per frame: the locals of the call running in it

ccVars == <<cc_args, cc_frames>>

\* All callers in the one frame: locals kept at module level.
FrameOf_module(caller) == 1

\* The frame holding the locals of a caller's call.
FrameOf(caller) == caller

EntryLocals ==
    [pc |-> "validate", processed_signal |-> <<>>, processed_control |-> None,
     artifact_mask |-> <<>>, original_signal |-> <<>>, original_control |-> None,
     motion_corrected |-> <<>>, result |-> Failure]

\* The next stage of a call with arguments a and locals l (no library
\* routine raising): the locals after it.
StageStep(a, l) ==
    CASE l.pc = "validate" ->
           IF \/ a.signal_raw.isNone \/ Len(a.signal_raw.arr) = 0
              \/ a.cfg.fs <= 0 \/ a.cfg.low_cutoff >= a.cfg.high_cutoff
           THEN [l EXCEPT !.pc = "done", !.result = Failure]
           ELSE [l EXCEPT !.pc = "convert"]
      [] l.pc = "convert" ->
           [l EXCEPT !.pc = "artifact",
                     !.processed_signal = CleanNonFinite(a.signal_raw.arr),
                     !.processed_control =
                         IF a.control_raw.isNone THEN None
                         ELSE Some(CleanNonFinite(a.control_raw.arr))]
      [] l.pc = "artifact" ->
           [l EXCEPT !.pc = "filter_signal",
                     !.artifact_mask =
                         IF l.processed_control.isNone
                         THEN AllFalse(Len(l.processed_signal))
                         ELSE detect_artifacts(l.processed_control.arr, DefaultThreshold10),
                     !.original_signal = l.processed_signal,
                     !.original_control = l.processed_control]
      [] l.pc = "filter_signal" ->
           [l EXCEPT !.pc = "filter_control",
                     !.processed_signal = PipelineFiltered(Some(l.processed_signal), a.cfg).arr]
      [] l.pc = "filter_control" ->
           [l EXCEPT !.pc = "motion",
                     !.processed_control = PipelineFiltered(l.processed_control, a.cfg)]
      [] l.pc = "motion" ->
           [l EXCEPT !.pc = "normalize",
                     !.motion_corrected = PipelineMotion(l.processed_signal, l.processed_control)]
      [] l.pc = "normalize" ->
           Once(PipelineDff(l.motion_corrected, a.cfg),
                LAMBDA n :
                    [l EXCEPT
                       !.pc = "done",
                       !.result =
                           IF a.time_raw.isNone THEN Failure
                           ELSE DownsampleOutputs(
                                    a.time_raw.arr, n.dff_signal,
                                    IF a.cfg.filter_raw_signals THEN l.processed_signal
                                    ELSE l.original_signal,
                                    IF a.cfg.filter_raw_signals THEN l.processed_control
                                    ELSE l.original_control,
                                    n.drift_curve, l.artifact_mask,
                                    Max2(1, a.cfg.downsample_factor))])

\* What a caller may pass: a short or a full-length recording, with or
\* without a reference, filtered and detrended one way or the other.
PipelineConfigs ==
    {[fs |-> 10, low_cutoff |-> 1, high_cutoff |-> 2, filter_type |-> "Lowpass",
      filter_order |-> 1, drift_correction |-> TRUE, drift_degree |-> 1,
      downsample_factor |-> 1, filter_raw_signals |-> TRUE],
     [fs |-> 10, low_cutoff |-> 1, high_cutoff |-> 2, filter_type |-> "Bandpass",
      filter_order |-> 1, drift_correction |-> FALSE, drift_degree |-> 2,
      downsample_factor |-> 2, filter_raw_signals |-> FALSE]}
ArgsOfLength(n) ==
    {[time_raw |-> Some(Ticks(n)), signal_raw |-> Some(Wave(n)), control_raw |-> ctl, cfg |-> c] :
        ctl \in {None, Some(Ref(n))}, c \in PipelineConfigs}
CallerArgs == ArgsOfLength(3) \cup ArgsOfLength(MaxLen)

ConcurrentInit ==
    /\ cc_args \in [Callers -> CallerArgs]
    /\ cc_frames = [f \in Callers |-> EntryLocals]

ConcurrentUnused ==
    /\ cc_args = [k \in Callers |->
                     [time_raw |-> None, signal_raw |-> None, control_raw |-> None,
                      cfg |-> [fs |-> 10, low_cutoff |-> 1, high_cutoff |-> 2,
                               filter_type |-> "Bandpass", filter_order |-> 2,
                               drift_correction |-> TRUE, drift_degree |-> 2,
                               downsample_factor |-> 1, filter_raw_signals |-> TRUE]]]
    /\ cc_frames = [f \in Callers |-> EntryLocals]

\* One stage of one of the calls.
CallerStep ==
    \E k \in Callers :
        /\ cc_args[k].signal_raw # None
        /\ cc_frames[FrameOf(k)].pc # "done"
        /\ cc_frames' = [cc_frames EXCEPT ![FrameOf(k)] = StageStep(cc_args[k], @)]
        /\ UNCHANGED cc_args

\* ------------------------- butter_filter and gpu_butter_filter: the calls
\* The frames of one butter_filter call whose arguments pass the checks of
\* lines 27-59, made by a test or by process_data_pipeline.  The interpreter raises RecursionError at a call that would
\* make the stack deeper than its recursion limit (1000 by default, a few
\* frames here).
RecursionLimit == 10

VARIABLES
    gp_env,      \* GPU_AVAILABLE, data_size_mb > 10, gpu_accel.gpu_available
    gp_stack,    \* the frames from the caller's butter_filter call to the running one
    gp_raising,  \* a RecursionError is propagating out of the frame just popped
    gp_ret       \* "none" while running, then what the running frame returns

gpVars == <<gp_env, gp_stack, gp_raising, gp_ret>>

\* use_gpu of line 63
use_gpu == gp_env.GPU_AVAILABLE /\ gp_env.big

\* The CPU implementation of lines 72-108 run in a frame at the given
\* depth.  butter and sosfiltfilt are Python functions that call further
\* Python functions, so they need at least two frames above their caller;
\* without them RecursionError reaches the except of lines 110-112, which
\* returns data.
CpuPath(depth) == IF depth + 1 < RecursionLimit THEN "filtered" ELSE "data"

Top == IF Len(gp_stack) = 0 THEN "none" ELSE gp_stack[Len(gp_stack)]
Running == gp_ret = "none" /\ ~gp_raising
\* The call has returned to the caller of butter_filter.
FilterReturned == gp_ret # "none" /\ Top \notin {"butter_filter", "gpu_butter_filter"}

GpuInit ==
    /\ gp_env \in [GPU_AVAILABLE : BOOLEAN, big : BOOLEAN, gpu_available : BOOLEAN]
    /\ gp_stack \in {<<"butter_filter">>, <<"process_data_pipeline", "butter_filter">>}
    /\ gp_raising = FALSE
    /\ gp_ret = "none"

GpuUnused ==
    /\ gp_env = [GPU_AVAILABLE |-> FALSE, big |-> FALSE, gpu_available |-> FALSE]
    /\ gp_stack = <<>>
    /\ gp_raising = FALSE
    /\ gp_ret = "none"

\* Lines 72-108 when the accelerated path is not selected.
FilterOnCpu ==
    /\ Running /\ Top = "butter_filter" /\ ~use_gpu
    /\ gp_ret' = CpuPath(Len(gp_stack))
    /\ UNCHANGED <<gp_env, gp_stack, gp_raising>>

\* Line 68: return gpu_butter_filter(data, cutoff, fs, btype, order).  At
\* the recursion limit the call raises, the except of lines 69-70 catches
\* it and the CPU implementation runs in this frame.
CallGpuButterFilter ==
    /\ Running /\ Top = "butter_filter" /\ use_gpu
    /\ IF Len(gp_stack) < RecursionLimit
       THEN gp_stack' = Append(gp_stack, "gpu_butter_filter") /\ UNCHANGED gp_ret
       ELSE gp_ret' = CpuPath(Len(gp_stack)) /\ UNCHANGED gp_stack
    /\ UNCHANGED <<gp_env, gp_raising>>

\* The call of butter_filter from gpu_butter_filter (lines 144 and 172).
\* Neither is inside a try of gpu_butter_filter, so a RecursionError raised
\* by the call leaves the frame.
ReenterButterFilter ==
    IF Len(gp_stack) < RecursionLimit
    THEN gp_stack' = Append(gp_stack, "butter_filter") /\ UNCHANGED gp_raising
    ELSE gp_stack' = SubSeq(gp_stack, 1, Len(gp_stack) - 1) /\ gp_raising' = TRUE

\* Lines 141-144: no GPU, fall back to butter_filter.
GpuUnavailable ==
    /\ Running /\ Top = "gpu_butter_filter" /\ ~gp_env.gpu_available
    /\ ReenterButterFilter
    /\ UNCHANGED <<gp_env, gp_ret>>

\* Lines 146-166: the GPU path completes and returns filtered_data.
GpuFilters ==
    /\ Running /\ Top = "gpu_butter_filter" /\ gp_env.gpu_available
    /\ gp_ret' = "filtered"
    /\ UNCHANGED <<gp_env, gp_stack, gp_raising>>

\* Lines 168-172: the GPU path raises, fall back to butter_filter.
GpuFails ==
    /\ Running /\ Top = "gpu_butter_filter" /\ gp_env.gpu_available
    /\ ReenterButterFilter
    /\ UNCHANGED <<gp_env, gp_ret>>

\* Lines 69-70: the RecursionError that left gpu_butter_filter is caught in
\* the butter_filter frame below, which goes on to its CPU implementation.
CatchAndFilterOnCpu ==
    /\ gp_raising /\ Top = "butter_filter"
    /\ gp_raising' = FALSE
    /\ gp_ret' = CpuPath(Len(gp_stack))
    /\ UNCHANGED <<gp_env, gp_stack>>

\* A frame returns to its caller, which returns the value on in turn
\* (lines 68, 144 and 172 are return statements).
ReturnToCaller ==
    /\ gp_ret # "none" /\ Top \in {"butter_filter", "gpu_butter_filter"}
    /\ gp_stack' = SubSeq(gp_stack, 1, Len(gp_stack) - 1)
    /\ UNCHANGED <<gp_env, gp_raising, gp_ret>>

\* -------------------------------- calculate_cross_correlation: the calls
\* One press of the cross-correlation button with two available traces.
\* Times and max_lag are in ticks of a twelfth of a sample step, so that
\* the grid of np.linspace falls on whole ticks; correlations are kept as
\* the integer sums of products, in units of the product of the two norms.
XcLen == 3

VARIABLES
    xc_args,   \* time1, signal1, time2, signal2 of get_signal_data, corr_max_lag
    xc_out     \* what the handler computed before it displays it

xcVars == <<xc_args, xc_out>>

\* np.linspace(start, stop, num) for num >= 2
np_linspace(start, stop, num) ==
    [i \in 1..num |-> start + FloorDiv((i - 1) * (stop - start), num - 1)]

\* np.correlate(a, v, mode='full') for two arrays of one length n: entry
\* j is the sum of a[i + k] * v[i] for the shift k = j - n.
np_correlate_full(a, v) ==
    LET n == Len(a)
    IN  [j \in 1..(2 * n - 1) |->
            LET k == j - n
                terms == [i \in 1..n |->
                             IF i + k >= 1 /\ i + k <= n THEN a[i + k] * v[i] ELSE 0]
            IN  Sum(terms)]

\* np.linalg.norm(a) * np.linalg.norm(v), squared
NormProduct2(a, v) == Sum([i \in 1..Len(a) |-> a[i] * a[i]]) * Sum([i \in 1..Len(v) |-> v[i] * v[i]])

\* cross_corr / (norm * norm) of line 1583: 0/0 and x/0 are NaN and
\* infinities in numpy, which only warns; a positive divisor keeps the
\* order of the magnitudes.
Normalized(cross_corr, a, v) ==
    IF NormProduct2(a, v) = 0
    THEN [j \in 1..Len(cross_corr) |-> IF cross_corr[j] = 0 THEN NaN ELSE Inf]
    ELSE cross_corr

\* np.argmax(np.abs(c)), counted from 1: the first NaN when there is one,
\* else the first entry of the largest magnitude.
argmax_abs(c) ==
    LET n == Len(c)
        nans == {j \in 1..n : c[j] = NaN}
    IN  IF nans # {} THEN SetMin(nans)
        ELSE SetMin({j \in 1..n : \A i \in 1..n : Abs(c[i]) <= Abs(c[j])})

\* Lines 1575-1601 of calculate_cross_correlation.
cross_correlation(a) ==
    LET start == Max2(a.time1[1], a.time2[1])
        stop == Min2(a.time1[Len(a.time1)], a.time2[Len(a.time2)])
        N == Min2(Len(a.time1), Len(a.time2))
        common_time == np_linspace(start, stop, N)
        signal1_interp == [i \in 1..N |-> np_interp(common_time[i], a.time1, a.signal1)]
        signal2_interp == [i \in 1..N |-> np_interp(common_time[i], a.time2, a.signal2)]
        cross_corr == Normalized(np_correlate_full(signal1_interp, signal2_interp),
                                 signal1_interp, signal2_interp)
        dt == common_time[2] - common_time[1]
        max_lag_samples == a.max_lag \div dt
        center == Len(cross_corr) \div 2                    \* counted from 0
        lag_start == Max2(0, center - max_lag_samples)
        lag_end == Min2(Len(cross_corr), center + max_lag_samples + 1)
        cross_corr_trimmed == SubSeq(cross_corr, lag_start + 1, lag_end)
        lags == [i \in 1..(lag_end - lag_start) |-> lag_start - center + i - 1]
        peak_idx == argmax_abs(cross_corr_trimmed)
    IN  [called |-> TRUE, N |-> N, dt |-> dt, cross_corr |-> cross_corr_trimmed,
         lags |-> lags,               \* in samples: the code multiplies by dt
         peak_idx |-> peak_idx, peak_lag |-> lags[peak_idx],
         peak_corr |-> cross_corr_trimmed[peak_idx]]

SampleSteps == {12, 24}
XcLevels == {-4, 0, 4}
\* The traces get_signal_data can return: a recording from time 0 at an
\* even sample step.
Recordings ==
    UNION {{[time |-> [i \in 1..n |-> (i - 1) * st], signal |-> sg] :
               st \in SampleSteps, sg \in [1..n -> XcLevels]} : n \in 2..XcLen}
MaxLags == {6, 12, 30}
NotCorrelated ==
    [called |-> FALSE, N |-> 0, dt |-> 0, cross_corr |-> <<>>, lags |-> <<>>,
     peak_idx |-> 0, peak_lag |-> 0, peak_corr |-> 0]

XcorrInit ==
    /\ xc_args \in {[time1 |-> r1.time, signal1 |-> r1.signal,
                     time2 |-> r2.time, signal2 |-> r2.signal, max_lag |-> ml] :
                       r1 \in Recordings, r2 \in Recordings, ml \in MaxLags}
    /\ xc_out = NotCorrelated

XcorrUnused ==
    /\ xc_args = [time1 |-> <<>>, signal1 |-> <<>>, time2 |-> <<>>, signal2 |-> <<>>,
                  max_lag |-> 0]
    /\ xc_out = NotCorrelated

CalculateCrossCorrelation ==
    /\ ~xc_out.called
    /\ xc_out' = cross_correlation(xc_args)
    /\ UNCHANGED xc_args

\* -------------------------------- calculate_rolling_correlation: the calls
\* One press of the rolling-correlation button with two available traces;
\* times and the window size are in the ticks of the cross-correlation.
RcLen == 4

VARIABLES
    rc_args,   \* time1, signal1, time2, signal2 of get_signal_data, corr_window
    rc_out     \* rolling_time, rolling_corr and the window of each entry

rcVars == <<rc_args, rc_out>>

\* np.corrcoef(x, y)[0, 1] as the pair of the covariance and the product of
\* the variances (each times the squared length): the coefficient is
\* num / sqrt(den2), NaN for an empty or a constant window.
np_corrcoef(x, y) ==
    LET n == Len(x)
        num == n * Sum([k \in 1..n |-> x[k] * y[k]]) - Sum(x) * Sum(y)
        den2 == VarN2(x) * VarN2(y)
    IN  IF n = 0 \/ den2 = 0 THEN [nan |-> TRUE, num |-> 0, den2 |-> 0]
        ELSE [nan |-> FALSE, num |-> num, den2 |-> den2]

\* signal[start_idx:end_idx], indices counted from 0, the end excluded
Slice(s, start_idx, end_idx) ==
    [k \in 1..Max2(end_idx - start_idx, 0) |-> s[start_idx + k]]

\* Lines 1754-1775 of calculate_rolling_correlation: the entry of the loop
\* for each i of range(window_samples//2, len - window_samples//2).
rolling_correlation(a) ==
    LET start == Max2(a.time1[1], a.time2[1])
        stop == Min2(a.time1[Len(a.time1)], a.time2[Len(a.time2)])
        N == Min2(Len(a.time1), Len(a.time2))
        common_time == np_linspace(start, stop, N)
        signal1_interp == [i \in 1..N |-> np_interp(common_time[i], a.time1, a.signal1)]
        signal2_interp == [i \in 1..N |-> np_interp(common_time[i], a.time2, a.signal2)]
        dt == common_time[2] - common_time[1]
        window_samples == a.window_size \div dt
        half == window_samples \div 2
        count == Max2(N - half - half, 0)
    IN  [called |-> TRUE, N |-> N, window_samples |-> window_samples,
         common_time |-> common_time,
         rolling |-> [k \in 1..count |->
                         LET i == half + k - 1
                             start_idx == i - half
                             end_idx == i + half
                         IN  [i |-> i, start_idx |-> start_idx, end_idx |-> end_idx,
                              corr |-> np_corrcoef(Slice(signal1_interp, start_idx, end_idx),
                                                   Slice(signal2_interp, start_idx, end_idx)),
                              time |-> common_time[i + 1]]]]

\* The traces get_signal_data can return, over two levels.
RollingRecordings ==
    UNION {{[time |-> [i \in 1..n |-> (i - 1) * st], signal |-> sg] :
               st \in SampleSteps, sg \in [1..n -> {0, 4}]} : n \in 2..RcLen}
\* corr_window: one to four sample steps
WindowSizes == {12, 24, 36, 48}
NotRolled == [called |-> FALSE, N |-> 0, window_samples |-> 0, common_time |-> <<>>,
              rolling |-> <<>>]

RollingInit ==
    /\ rc_args \in {[time1 |-> r1.time, signal1 |-> r1.signal,
                     time2 |-> r2.time, signal2 |-> r2.signal, window_size |-> ws] :
                       r1 \in RollingRecordings, r2 \in RollingRecordings, ws \in WindowSizes}
    /\ rc_out = NotRolled

RollingUnused ==
    /\ rc_args = [time1 |-> <<>>, signal1 |-> <<>>, time2 |-> <<>>, signal2 |-> <<>>,
                  window_size |-> 0]
    /\ rc_out = NotRolled

CalculateRollingCorrelation ==
    /\ ~rc_out.called
    /\ rc_out' = rolling_correlation(rc_args)
    /\ UNCHANGED rc_args

\* ----------------------- PhotometryViewer: process_and_update threads
\* update_filter starts one daemon thread per call; the threads and the
\* main thread interleave between statements.  The primary dataset and
\* the controls are the host's; the secondary dataset is not loaded.
MaxRequests == 2    \* update_filter calls in a session

VARIABLES
    wk_threads,     \* per update_filter call, in call order: its thread
    wk_origin,      \* per processed field: the call whose thread stored
                    \* it, 0 for the loader
    wk_seen         \* what the last run_detection found stored

wkVars == <<wk_threads, wk_origin, wk_seen>>

\* The order in which process_and_update stores the pipeline's values, and
\* the value of the returned tuple each field receives.
StoreOrder == <<"time", "dff", "raw1", "raw2", "fit", "artifact_mask">>
Returned6 == <<"time_ds", "dff_ds", "raw1_ds", "raw2_ds", "drift_ds", "artifact_mask_ds">>

NothingSeen == [read |-> FALSE, origin |-> [f \in {} |-> 0], len |-> [f \in {} |-> 0]]

WorkersInit ==
    /\ wk_threads = <<>>
    /\ wk_origin = [k \in 1..Len(StoreOrder) |-> 0]
    /\ wk_seen = NothingSeen

WorkersUnused ==
    /\ wk_threads = <<>>
    /\ wk_origin = [k \in 1..Len(StoreOrder) |-> 0]
    /\ wk_seen = NothingSeen

\* update_filter on the main thread: detection is cleared and a thread is
\* started; "requested" keeps the controls as they are at the call.
StartProcessAndUpdate ==
    /\ Len(wk_threads) < MaxRequests
    /\ primary_data.loaded
    /\ primary_data' = update_filter(primary_data)
    /\ secondary_data' = update_filter(secondary_data)
    /\ workers' = workers + 1
    /\ wk_threads' = Append(wk_threads,
                            [pc |-> "params", requested |-> PipelineConfig(primary_data),
                             cfg |-> PipelineConfig(primary_data), out |-> Failure,
                             stored |-> 0])
    /\ UNCHANGED <<params, blanking_regions, ops, wk_origin, wk_seen>>

\* A thread's first statements: get_params_as_dict and the reads of the
\* controls.
ReadControls ==
    \E i \in 1..Len(wk_threads) :
        /\ wk_threads[i].pc = "params"
        /\ wk_threads' = [wk_threads EXCEPT ![i].pc = "pipeline",
                                            ![i].cfg = PipelineConfig(primary_data)]
        /\ UNCHANGED <<hostVars, wk_origin, wk_seen>>

\* The thread's call of process_data_pipeline on the raw arrays.
CallPipeline ==
    \E i \in 1..Len(wk_threads) :
        /\ wk_threads[i].pc = "pipeline"
        /\ wk_threads' =
               [wk_threads EXCEPT
                   ![i].pc = "store",
                   ![i].out = process_data_pipeline(Some(primary_data.time_raw),
                                                    Some(primary_data.analog_1_raw),
                                                    Some(primary_data.analog_2_raw),
                                                    wk_threads[i].cfg)]
        /\ UNCHANGED <<hostVars, wk_origin, wk_seen>>

\* One of the thread's six assignments to self.primary_data[...].
StoreField ==
    \E i \in 1..Len(wk_threads) :
        /\ wk_threads[i].pc = "store"
        /\ LET k == wk_threads[i].stored + 1
           IN  /\ primary_data' =
                      [primary_data EXCEPT ![StoreOrder[k]] = wk_threads[i].out[Returned6[k]]]
               /\ wk_origin' = [wk_origin EXCEPT ![k] = i]
               /\ wk_threads' = [wk_threads EXCEPT
                                    ![i].stored = k,
                                    ![i].pc = IF k = Len(StoreOrder) THEN "done" ELSE "store"]
               /\ workers' = IF k = Len(StoreOrder) THEN workers - 1 ELSE workers
        /\ UNCHANGED <<secondary_data, params, blanking_regions, ops, wk_seen>>

\* The downsample control is changed on the main thread.
ChangeDownsample ==
    /\ ops < MaxOps
    /\ \E v \in ControlValues.downsample_factor :
         /\ v # params.downsample_factor
         /\ params' = [params EXCEPT !.downsample_factor = v]
    /\ ops' = ops + 1
    /\ UNCHANGED <<primary_data, secondary_data, blanking_regions, workers, wkVars>>

\* run_detection on the main thread, with a record of the fields it found.
DetectWhileProcessing ==
    /\ RunDetection
    /\ wk_seen' = [read |-> TRUE, origin |-> wk_origin,
                   len |-> [k \in 1..Len(StoreOrder) |->
                               Len(primary_data[StoreOrder[k]].arr)]]
    /\ UNCHANGED <<wk_threads, wk_origin>>

\* ------------------------------------------------------ specifications
coreVars == <<pipeVars, bfVars, pkVars, hostVars>>
anVars == <<mtVars, psVars, ivVars, daVars, dnVars, ccVars, gpVars, xcVars, rcVars, wkVars>>
vars == <<coreVars, anVars>>

\* The calls of the analysis functions that a specification does not make.
AnalysisUnused == MetricsUnused /\ PsthUnused /\ IntervalsUnused /\ ArtifactsUnused /\ DenoiseUnused /\ ConcurrentUnused /\ GpuUnused /\ XcorrUnused /\ RollingUnused /\ WorkersUnused

Init ==
    /\ PipelineIdle
    /\ (ValidationCalls \/ StageCalls \/ NumericCalls)
    /\ FilterUnused
    /\ PeaksUnused
    /\ HostUnused
    /\ AnalysisUnused

Next ==
    \/ Reject /\ UNCHANGED <<bfVars, pkVars, hostVars, anVars>>
    \/ Convert /\ UNCHANGED <<bfVars, pkVars, hostVars, anVars>>
    \/ ArtifactStage /\ UNCHANGED <<bfVars, pkVars, hostVars, anVars>>
    \/ FilterStage /\ UNCHANGED <<bfVars, pkVars, hostVars, anVars>>
    \/ MotionStage /\ UNCHANGED <<bfVars, pkVars, hostVars, anVars>>
    \/ DriftTry /\ UNCHANGED <<bfVars, pkVars, hostVars, anVars>>
    \/ DriftExcept /\ UNCHANGED <<bfVars, pkVars, hostVars, anVars>>
    \/ DffStage /\ UNCHANGED <<bfVars, pkVars, hostVars, anVars>>
    \/ DownsampleTry /\ UNCHANGED <<bfVars, pkVars, hostVars, anVars>>
    \/ DownsampleExcept /\ UNCHANGED <<bfVars, pkVars, hostVars, anVars>>

Spec == Init /\ [][Next]_vars

InitFilter == PipelineUnused /\ FilterInit /\ PeaksUnused /\ HostUnused /\ AnalysisUnused
NextFilter == ButterFilterCall /\ UNCHANGED <<pipeVars, pkVars, hostVars, anVars>>
SpecFilter == InitFilter /\ [][NextFilter]_vars

InitPeaks == PipelineUnused /\ FilterUnused /\ PeaksInit /\ HostUnused /\ AnalysisUnused
NextPeaks == FindPeaksValleysCall /\ UNCHANGED <<pipeVars, bfVars, hostVars, anVars>>
SpecPeaks == InitPeaks /\ [][NextPeaks]_vars

InitHost == PipelineUnused /\ FilterUnused /\ PeaksUnused /\ HostInit /\ AnalysisUnused
NextHost ==
    \/ UpdateFilter /\ UNCHANGED <<pipeVars, bfVars, pkVars, anVars>>
    \/ ProcessAndUpdate /\ UNCHANGED <<pipeVars, bfVars, pkVars, anVars>>
    \/ RunDetection /\ UNCHANGED <<pipeVars, bfVars, pkVars, anVars>>
    \/ RunAdvancedDenoising /\ UNCHANGED <<pipeVars, bfVars, pkVars, anVars>>
    \/ ApplyBlanking /\ UNCHANGED <<pipeVars, bfVars, pkVars, anVars>>
    \/ OnBlankingRelease /\ UNCHANGED <<pipeVars, bfVars, pkVars, anVars>>
    \/ ClearAllBlanking /\ UNCHANGED <<pipeVars, bfVars, pkVars, anVars>>
    \/ ApplyTimeShift /\ UNCHANGED <<pipeVars, bfVars, pkVars, anVars>>
    \/ SetControl /\ UNCHANGED <<pipeVars, bfVars, pkVars, anVars>>
    \/ ClearDetection /\ UNCHANGED <<pipeVars, bfVars, pkVars, anVars>>
SpecHost == InitHost /\ [][NextHost]_vars

CoreUnused == PipelineUnused /\ FilterUnused /\ PeaksUnused /\ HostUnused

InitMetrics == CoreUnused /\ MetricsInit /\ PsthUnused /\ IntervalsUnused /\ ArtifactsUnused /\ DenoiseUnused /\ ConcurrentUnused /\ GpuUnused /\ XcorrUnused /\ RollingUnused /\ WorkersUnused
NextMetrics ==
    \/ DetectEvents /\ UNCHANGED <<coreVars, psVars, ivVars, daVars, dnVars, ccVars, gpVars, xcVars, rcVars, wkVars>>
    \/ MeasureEvents /\ UNCHANGED <<coreVars, psVars, ivVars, daVars, dnVars, ccVars, gpVars, xcVars, rcVars, wkVars>>
SpecMetrics == InitMetrics /\ [][NextMetrics]_vars

InitMeasure == CoreUnused /\ MeasureInit /\ PsthUnused /\ IntervalsUnused /\ ArtifactsUnused /\ DenoiseUnused /\ ConcurrentUnused /\ GpuUnused /\ XcorrUnused /\ RollingUnused /\ WorkersUnused
NextMeasure == MeasureEvents /\ UNCHANGED <<coreVars, psVars, ivVars, daVars, dnVars, ccVars, gpVars, xcVars, rcVars, wkVars>>
SpecMeasure == InitMeasure /\ [][NextMeasure]_vars

InitPsth == CoreUnused /\ MetricsUnused /\ PsthInit /\ IntervalsUnused /\ ArtifactsUnused /\ DenoiseUnused /\ ConcurrentUnused /\ GpuUnused /\ XcorrUnused /\ RollingUnused /\ WorkersUnused
NextPsth == GeneratePsth /\ UNCHANGED <<coreVars, mtVars, ivVars, daVars, dnVars, ccVars, gpVars, xcVars, rcVars, wkVars>>
SpecPsth == InitPsth /\ [][NextPsth]_vars

InitIntervals == CoreUnused /\ MetricsUnused /\ PsthUnused /\ IntervalsInit /\ ArtifactsUnused /\ DenoiseUnused /\ ConcurrentUnused /\ GpuUnused /\ XcorrUnused /\ RollingUnused /\ WorkersUnused
NextIntervals == CalculateIntervalsCall /\ UNCHANGED <<coreVars, mtVars, psVars, daVars, dnVars, ccVars, gpVars, xcVars, rcVars, wkVars>>
SpecIntervals == InitIntervals /\ [][NextIntervals]_vars

InitArtifacts == CoreUnused /\ MetricsUnused /\ PsthUnused /\ IntervalsUnused /\ ArtifactsInit /\ DenoiseUnused /\ ConcurrentUnused /\ GpuUnused /\ XcorrUnused /\ RollingUnused /\ WorkersUnused
NextArtifacts == DetectArtifactsCall /\ UNCHANGED <<coreVars, mtVars, psVars, ivVars, dnVars, ccVars, gpVars, xcVars, rcVars, wkVars>>
SpecArtifacts == InitArtifacts /\ [][NextArtifacts]_vars

InitDenoise ==
    CoreUnused /\ MetricsUnused /\ PsthUnused /\ IntervalsUnused /\ ArtifactsUnused /\ DenoiseInit /\ ConcurrentUnused /\ GpuUnused /\ XcorrUnused /\ RollingUnused /\ WorkersUnused
NextDenoise == AdvancedDenoiseCall /\ UNCHANGED <<coreVars, mtVars, psVars, ivVars, daVars, ccVars, gpVars, xcVars, rcVars, wkVars>>
SpecDenoise == InitDenoise /\ [][NextDenoise]_vars

InitConcurrent ==
    /\ CoreUnused /\ MetricsUnused /\ PsthUnused /\ IntervalsUnused /\ ArtifactsUnused
    /\ DenoiseUnused /\ ConcurrentInit /\ GpuUnused /\ XcorrUnused /\ RollingUnused /\ WorkersUnused
NextConcurrent == CallerStep /\ UNCHANGED <<coreVars, mtVars, psVars, ivVars, daVars, dnVars, gpVars, xcVars, rcVars, wkVars>>
SpecConcurrent == InitConcurrent /\ [][NextConcurrent]_vars

InitGpu ==
    /\ CoreUnused /\ MetricsUnused /\ PsthUnused /\ IntervalsUnused /\ ArtifactsUnused
    /\ DenoiseUnused /\ ConcurrentUnused /\ GpuInit /\ XcorrUnused /\ RollingUnused /\ WorkersUnused
NextGpu ==
    \/ FilterOnCpu /\ UNCHANGED <<coreVars, mtVars, psVars, ivVars, daVars, dnVars, ccVars, xcVars, rcVars, wkVars>>
    \/ CallGpuButterFilter /\ UNCHANGED <<coreVars, mtVars, psVars, ivVars, daVars, dnVars, ccVars, xcVars, rcVars, wkVars>>
    \/ GpuUnavailable /\ UNCHANGED <<coreVars, mtVars, psVars, ivVars, daVars, dnVars, ccVars, xcVars, rcVars, wkVars>>
    \/ GpuFilters /\ UNCHANGED <<coreVars, mtVars, psVars, ivVars, daVars, dnVars, ccVars, xcVars, rcVars, wkVars>>
    \/ GpuFails /\ UNCHANGED <<coreVars, mtVars, psVars, ivVars, daVars, dnVars, ccVars, xcVars, rcVars, wkVars>>
    \/ CatchAndFilterOnCpu /\ UNCHANGED <<coreVars, mtVars, psVars, ivVars, daVars, dnVars, ccVars, xcVars, rcVars, wkVars>>
    \/ ReturnToCaller /\ UNCHANGED <<coreVars, mtVars, psVars, ivVars, daVars, dnVars, ccVars, xcVars, rcVars, wkVars>>
SpecGpu == InitGpu /\ [][NextGpu]_vars

InitXcorr ==
    /\ CoreUnused /\ MetricsUnused /\ PsthUnused /\ IntervalsUnused /\ ArtifactsUnused
    /\ DenoiseUnused /\ ConcurrentUnused /\ GpuUnused /\ XcorrInit /\ RollingUnused /\ WorkersUnused
NextXcorr ==
    CalculateCrossCorrelation /\ UNCHANGED <<coreVars, mtVars, psVars, ivVars, daVars, dnVars, ccVars, gpVars, rcVars, wkVars>>
SpecXcorr == InitXcorr /\ [][NextXcorr]_vars

InitRolling ==
    /\ CoreUnused /\ MetricsUnused /\ PsthUnused /\ IntervalsUnused /\ ArtifactsUnused
    /\ DenoiseUnused /\ ConcurrentUnused /\ GpuUnused /\ XcorrUnused /\ RollingInit /\ WorkersUnused
NextRolling ==
    CalculateRollingCorrelation /\ UNCHANGED <<coreVars, mtVars, psVars, ivVars, daVars, dnVars, ccVars, gpVars, xcVars, wkVars>>
SpecRolling == InitRolling /\ [][NextRolling]_vars

InitWorkers ==
    /\ PipelineUnused /\ FilterUnused /\ PeaksUnused
    /\ HostInit /\ secondary_data = NotLoaded
    /\ MetricsUnused /\ PsthUnused /\ IntervalsUnused /\ ArtifactsUnused
    /\ DenoiseUnused /\ ConcurrentUnused /\ GpuUnused /\ XcorrUnused /\ RollingUnused
    /\ WorkersInit
NextWorkers ==
    \/ StartProcessAndUpdate /\ UNCHANGED <<pipeVars, bfVars, pkVars, mtVars, psVars, ivVars, daVars, dnVars, ccVars, gpVars, xcVars, rcVars>>
    \/ ReadControls /\ UNCHANGED <<pipeVars, bfVars, pkVars, mtVars, psVars, ivVars, daVars, dnVars, ccVars, gpVars, xcVars, rcVars>>
    \/ CallPipeline /\ UNCHANGED <<pipeVars, bfVars, pkVars, mtVars, psVars, ivVars, daVars, dnVars, ccVars, gpVars, xcVars, rcVars>>
    \/ StoreField /\ UNCHANGED <<pipeVars, bfVars, pkVars, mtVars, psVars, ivVars, daVars, dnVars, ccVars, gpVars, xcVars, rcVars>>
    \/ ChangeDownsample /\ UNCHANGED <<pipeVars, bfVars, pkVars, mtVars, psVars, ivVars, daVars, dnVars, ccVars, gpVars, xcVars, rcVars>>
    \/ DetectWhileProcessing /\ UNCHANGED <<pipeVars, bfVars, pkVars, mtVars, psVars, ivVars, daVars, dnVars, ccVars, gpVars, xcVars, rcVars>>
SpecWorkers == InitWorkers /\ [][NextWorkers]_vars

\* =============================================================== claims
Returned == pc = "done"
Succeeded == Returned /\ result # Failure
OutputFields == {"time_ds", "dff_ds", "raw1_ds", "raw2_ds", "drift_ds", "artifact_mask_ds"}

\* C1: a call with a missing or empty signal, fs <= 0 or low_cutoff >=
\* high_cutoff (whatever the filter kind) never enters a processing stage,
\* and what it returns is the failure tuple: all six values None.
C1_InvalidCallRejectedUpFront ==
    (\/ signal_raw.isNone
     \/ Len(signal_raw.arr) = 0
     \/ cfg.fs <= 0
     \/ cfg.low_cutoff >= cfg.high_cutoff)
    => /\ ran = {}
       /\ pc \in {"validate", "done"}
       /\ Returned => \A f \in OutputFields : result[f].isNone

C1_Witness ==
    /\ Returned
    /\ ~signal_raw.isNone
    /\ Len(signal_raw.arr) > 0
    /\ cfg.fs > 0
    /\ cfg.low_cutoff >= cfg.high_cutoff
    /\ cfg.filter_type = "Lowpass"
    /\ result = Failure

\* C2 as stated: every non-failure result carries all six arrays, all of
\* one length.
C2_AllSixArraysEqualLength ==
    Succeeded =>
        \A f \in OutputFields :
            /\ ~result[f].isNone
            /\ Len(result[f].arr) = Len(result.time_ds.arr)

\* C2 amended: time, dff, raw1 and the artifact mask of every non-failure
\* result have one length; raw2 is None exactly when there is no usable
\* reference channel and the baseline curve is None exactly when drift
\* correction is off or its fit raised, and otherwise they have that length.
C2_PresentArraysEqualLength ==
    Succeeded =>
        /\ \A f \in {"time_ds", "dff_ds", "raw1_ds", "artifact_mask_ds"} :
               /\ ~result[f].isNone
               /\ Len(result[f].arr) = Len(result.time_ds.arr)
        /\ result.raw2_ds.isNone <=> (control_raw.isNone \/ fault = "convert_control")
        /\ result.drift_ds.isNone <=> (~cfg.drift_correction \/ "drift" \in raised)
        /\ \A f \in {"raw2_ds", "drift_ds"} :
               ~result[f].isNone => Len(result[f].arr) = Len(result.time_ds.arr)

C2_Witness ==
    /\ Succeeded
    /\ cfg.downsample_factor = 2
    /\ Len(signal_raw.arr) = 5
    /\ result.drift_ds.isNone
    /\ ~result.raw2_ds.isNone
    /\ Len(result.artifact_mask_ds.arr) = 3

\* The full-rate array each returned array is sliced from.
FullRate(f) ==
    IF f = "time_ds" THEN time_raw
    ELSE IF f = "dff_ds" THEN Some(dff_signal)
    ELSE IF f = "raw1_ds"
    THEN Some(IF cfg.filter_raw_signals THEN processed_signal ELSE original_signal)
    ELSE IF f = "raw2_ds"
    THEN (IF cfg.filter_raw_signals THEN processed_control ELSE original_control)
    ELSE IF f = "drift_ds" THEN drift_curve
    ELSE Some(artifact_mask)

\* C3: with N input samples and downsample factor k >= 1, every array of a
\* non-failure result has ceil(N / k) elements, and its element i (from 0)
\* is element i * k of the full-rate array it was taken from.
C3_DecimationAlignment ==
    (Succeeded /\ cfg.downsample_factor >= 1) =>
        LET k == cfg.downsample_factor
            N == Len(signal_raw.arr)
            m == (N + k - 1) \div k
        IN  \A f \in OutputFields :
                ~result[f].isNone =>
                    /\ Len(result[f].arr) = m
                    /\ \A i \in 0..(m - 1) :
                           result[f].arr[i + 1] = FullRate(f).arr[i * k + 1]

C3_Witness ==
    /\ Succeeded
    /\ cfg.downsample_factor = 3
    /\ Len(signal_raw.arr) = 7
    /\ ~result.raw2_ds.isNone
    /\ ~result.drift_ds.isNone
    /\ Len(result.dff_ds.arr) = 3
    /\ result.time_ds.arr = <<0, 3, 6>>

\* C4 as stated: a call in which exactly one stage raised still returns a
\* non-failure result.
C4_NoStageFailureAborts ==
    (Returned /\ Cardinality(raised) = 1) => result # Failure

\* C4 amended: an exception in artifact detection, filtering, motion
\* correction, drift correction or dF/F normalisation is absorbed, the stage
\* yielding its fallback (all-false mask, unfiltered channels, uncorrected
\* signal, no baseline, all-zero dF/F), and the call returns a non-failure
\* result unless the downsampling block raises; when that block raises the
\* call returns the failure tuple.
C4_StageFailureAbsorbedExceptDownsample ==
    /\ ("artifact" \in raised /\ pc # "artifact") =>
           artifact_mask = AllFalse(Len(processed_signal))
    /\ ("filter" \in raised /\ pc = "motion") =>
           (processed_signal = original_signal /\ processed_control = original_control)
    /\ ("motion" \in raised /\ pc = "drift") => motion_corrected = processed_signal
    /\ ("drift" \in raised /\ pc = "dff") =>
           (detrended_signal = motion_corrected /\ drift_curve = None)
    /\ ("dff" \in raised /\ pc = "downsample") =>
           dff_signal = Zeros(Len(detrended_signal))
    /\ (Returned /\ raised # {}) => (result = Failure <=> "downsample" \in raised)

C4_Witness ==
    /\ Returned
    /\ raised = {"drift"}
    /\ fault = "drift"
    /\ result # Failure
    /\ ~result.dff_ds.isNone

\* C5: once the normalizer has run, every dF/F sample is
\* (detrended - F0) / max(|F0|, eps) * 100 with F0 the signed 10th
\* percentile of the detrended trace; a sample equal to F0 maps to 0.
C5_DffRelativeToSignedBaseline ==
    ("dff" \in ran /\ "dff" \notin raised) =>
        LET F0 == percentile10(detrended_signal)
        IN  \A i \in 1..Len(detrended_signal) :
                /\ dff_signal[i] =
                       FloorDiv((detrended_signal[i] - F0) * 100, Max2(Abs(F0), Eps))
                /\ detrended_signal[i] = F0 => dff_signal[i] = 0

\* C6: a constant signal (reference constant or absent) under a Bandpass
\* configuration with 0 < low < high < fs/2 gives a dF/F output within one
\* percent of 0 at every sample.
C6_ConstantTraceGivesZeroDff ==
    (/\ Succeeded
     /\ IsConstant(signal_raw.arr)
     /\ (control_raw.isNone \/ IsConstant(control_raw.arr))
     /\ cfg.filter_type = "Bandpass"
     /\ 0 < cfg.low_cutoff
     /\ 2 * cfg.high_cutoff < cfg.fs
     /\ fault = "none"
     /\ Len(signal_raw.arr) > 1
     /\ raised = {})
    => \A i \in 1..Len(result.dff_ds.arr) : Abs(result.dff_ds.arr[i]) <= 1

\* C7: a butter_filter call never raises, and returns a trace of exactly
\* the length of the trace it was given (None for None).
C7_FilterNeverRaisesKeepsLength ==
    bf_calls > 0 =>
        /\ ~bf_out.raised
        /\ bf_out.ret.isNone = bf_in.isNone
        /\ Len(bf_out.ret.arr) = Len(bf_in.arr)

C7_Witness ==
    /\ bf_calls = 2
    /\ bf_out.path = "filtered"
    /\ Len(bf_out.ret.arr) = MaxLen
    /\ bf_out.ret # bf_in

\* C8: when butter_filter gives up (invalid cutoff, trace too short, design
\* error, application error, non-finite output, unexpected exception) it
\* returns the trace it was given, sample for sample.
C8_GiveUpReturnsInputUnchanged ==
    (bf_calls > 0 /\ bf_out.path \notin {"filtered", "none"}) => bf_out.ret = bf_in

\* C10: when find_peaks_valleys returns for a trace, no index is both a
\* peak and a valley, each index array is strictly increasing, and
\* times[i] and heights[i] / depths[i] are the time and the trace value at
\* indices[i].
C10_EventsDisjointOrderedAligned ==
    (pk_out.called /\ ~pk_out.raised /\ pk_out.peaks.has) =>
        LET P == pk_out.peaks
            V == pk_out.valleys
            Aligned(E) ==
                /\ Len(E.times) = Len(E.indices)
                /\ Len(E.amps) = Len(E.indices)
                /\ \A i \in 1..Len(E.indices) :
                       /\ E.indices[i] \in 0..(Len(pk_signal.arr) - 1)
                       /\ E.times[i] = pk_time.arr[E.indices[i] + 1]
                       /\ E.amps[i] = pk_signal.arr[E.indices[i] + 1]
                       /\ i > 1 => E.indices[i - 1] < E.indices[i]
        IN  /\ V.has
            /\ Aligned(P)
            /\ Aligned(V)
            /\ \A i \in 1..Len(P.indices), j \in 1..Len(V.indices) :
                   P.indices[i] # V.indices[j]

C10_Witness ==
    /\ pk_out.called
    /\ ~pk_out.raised
    /\ Len(pk_out.peaks.indices) = 2
    /\ Len(pk_out.valleys.indices) = 1
    /\ pk_args.distance_s10 > 0
    /\ \E i \in 2..Len(pk_signal.arr) : pk_signal.arr[i] = pk_signal.arr[i - 1]

\* What a detection run now, on the dataset as it is and with the controls
\* as they are, would leave in the dataset.
StoredEventsCurrent(d, r) ==
    /\ \/ d.peaks = ClearedEvents /\ d.peak_metrics = NoMetrics
       \/ /\ ~r.raised
          /\ d.peaks = StoreDetection(d, "Peak", r).peaks
          /\ d.peak_metrics = StoreDetection(d, "Peak", r).peak_metrics
    /\ \/ d.valleys = ClearedEvents /\ d.valley_metrics = NoMetrics
       \/ /\ ~r.raised
          /\ d.valleys = StoreDetection(d, "Valley", r).valleys
          /\ d.valley_metrics = StoreDetection(d, "Valley", r).valley_metrics
EventsCurrent(d) ==
    d.loaded =>
        Once(find_peaks_valleys(d.dff, d.time, d.fs, params.prominence,
                                params.width_s10, params.distance_s10),
             LAMBDA r : StoredEventsCurrent(d, r))

\* C9: after any sequence of host operations the peaks, valleys and metrics
\* stored in a dataset are either cleared or exactly those of a detection
\* on the dff and time arrays now stored, with the detection parameters
\* now set.
C9_StoredEventsMatchCurrentTrace ==
    EventsCurrent(primary_data) /\ EventsCurrent(secondary_data)

\* C11: find_peaks_valleys, called with a trace (or none) and the time axis
\* of that trace and any fs, prominence, width and distance, does not
\* raise, and both values it returns carry the index, time and amplitude
\* fields (empty arrays when nothing is found).
C11_DetectorFailsSoft ==
    (/\ pk_out.called
     /\ ~pk_time.isNone
     /\ (~pk_signal.isNone => Len(pk_time.arr) = Len(pk_signal.arr))) =>
        /\ ~pk_out.raised
        /\ pk_out.peaks.has
        /\ pk_out.valleys.has

\* The metrics of the event at index e (counted from 0) of a trace sampled
\* at Clock, enclosed by pre and post; sign 1 for a peak, -1 for a valley.
EnclosedMetrics(x, e, pre, post, sign) ==
    LET t == Clock(Len(x))
        level == IF sign = 1 THEN Min2(x[pre + 1], x[post + 1])
                 ELSE Max2(x[pre + 1], x[post + 1])
        AtHalf(k) == IF sign = 1 THEN 2 * x[k + 1] >= level + x[e + 1]
                     ELSE 2 * x[k + 1] <= level + x[e + 1]
        r == SetMin({k \in pre..e : AtHalf(k)})
        d == SetMax({k \in e..post : AtHalf(k)})
    IN  [area2 |-> Sum([k \in 1..(post - pre) |->
                           (t[pre + k + 1] - t[pre + k])
                           * sign * (x[pre + k] + x[pre + k + 1] - 2 * level)]),
         fwhm |-> t[d + 1] - t[r + 1],
         rise_time |-> t[e + 1] - t[r + 1],
         decay_time |-> t[d + 1] - t[e + 1]]
MetricsFollowEnclosure(m, events, others, fields, sign) ==
    /\ ~m.isNone
    /\ \A f \in fields : Len(m[f]) = Len(events)
    /\ \A i \in 1..Len(events) :
          LET e == events[i]
              S == {others[j] : j \in 1..Len(others)}
              B == {v \in S : v < e}
              A == {v \in S : v > e}
          IN  IF B = {} \/ A = {}
              THEN \A f \in fields : m[f][i] = NaN
              ELSE \A f \in fields :
                      /\ m[f][i] # NaN
                      /\ m[f][i] = EnclosedMetrics(mt_signal, e, SetMax(B), SetMin(A), sign)[f]

\* C12: for the events a detection returns, calculate_peak_metrics gives a
\* peak NaN in all four metrics exactly when no valley index lies before it
\* or none after it, and otherwise the metrics of the enclosure made by the
\* largest valley index below the peak and the smallest above it;
\* calculate_valley_metrics does the same for a valley with the peaks
\* around it (area and width).
C12_MetricsFromNearestEnclosure ==
    (mt_pc = "done" /\ ~mt_events.raised) =>
        /\ Len(mt_events.peaks.indices) > 0 =>
               MetricsFollowEnclosure(mt_peak_metrics, mt_events.peaks.indices,
                                      mt_events.valleys.indices,
                                      {"area2", "fwhm", "rise_time", "decay_time"}, 1)
        /\ Len(mt_events.valleys.indices) > 0 =>
               MetricsFollowEnclosure(mt_valley_metrics, mt_events.valleys.indices,
                                      mt_events.peaks.indices, {"area2", "fwhm"}, -1)

\* A peak with two valleys before it and one after, and valleys with and
\* without a peak on each side.
C12_Witness ==
    /\ mt_pc = "done"
    /\ ~mt_events.raised
    /\ \E i \in 1..Len(mt_events.peaks.indices) :
          /\ Cardinality({j \in 1..Len(mt_events.valleys.indices) :
                             mt_events.valleys.indices[j] < mt_events.peaks.indices[i]}) = 2
          /\ mt_peak_metrics.area2[i] # NaN
          /\ mt_peak_metrics.fwhm[i] > 0
    /\ \E j \in 1..Len(mt_events.valleys.indices) : mt_valley_metrics.fwhm[j] = NaN
    /\ \E j \in 1..Len(mt_events.valleys.indices) : mt_valley_metrics.fwhm[j] # NaN

\* The window [t - pre_time, t + post_time] lies inside the time range of
\* the trace.
WindowInside(t) ==
    /\ ps_time[1] <= t - ps_params.pre_time
    /\ t + ps_params.post_time <= ps_time[Len(ps_time)]
\* The samples of the trace from t - pre_time up to, not including,
\* t + post_time.
WindowSamples(t) ==
    {i \in 1..Len(ps_time) :
        t - ps_params.pre_time <= ps_time[i] /\ ps_time[i] < t + ps_params.post_time}
PsthUsed(t) == \E j \in 1..Len(ps_out.used) : ps_out.used[j] = t
PsthShape ==
    /\ Len(ps_out.psth_matrix) = Len(ps_out.used)
    /\ ps_out.valid_events = Len(ps_out.used)
    /\ \A j \in 1..Len(ps_out.psth_matrix) :
          Len(ps_out.psth_matrix[j]) =
              Len(BinCentres2(ps_params.pre_time, ps_params.post_time, ps_params.bin_size))

\* C13 as stated: generate_psth uses an event exactly when its whole window
\* lies inside the time range of the trace; every used event has a value in
\* every bin and the count shown is the number of used events.
C13_EventUsedIffWindowInside ==
    ps_out.status # "none" =>
        /\ \A i \in 1..Len(ps_events) : PsthUsed(ps_events[i]) <=> WindowInside(ps_events[i])
        /\ PsthShape

\* C13 as the code has it: an event is used exactly when its whole window
\* lies inside the time range of the trace and at least two samples fall at
\* or after the start of the window and before its end; such an event is
\* never truncated, every used event has a value in every bin and the count
\* shown is the number of used events.
C13_EventUsedIffWindowInsideWithTwoSamples ==
    ps_out.status # "none" =>
        /\ \A i \in 1..Len(ps_events) :
              PsthUsed(ps_events[i]) <=>
                  (WindowInside(ps_events[i]) /\ Cardinality(WindowSamples(ps_events[i])) >= 2)
        /\ PsthShape
        /\ ps_out.status = "plotted" <=> Len(ps_out.used) > 0

\* Two events used, one event dropped at each end of the trace.
C13_Witness ==
    /\ ps_out.status = "plotted"
    /\ ps_out.valid_events = 2
    /\ \E i \in 1..Len(ps_events) :
          ~PsthUsed(ps_events[i]) /\ ps_events[i] - ps_params.pre_time < ps_time[1]
    /\ \E i \in 1..Len(ps_events) :
          ~PsthUsed(ps_events[i])
          /\ ps_events[i] + ps_params.post_time > ps_time[Len(ps_time)]
    /\ Len(ps_out.psth_matrix[1]) > 2

\* The permutations of 1..n, and a sequence rearranged by one.
Permutations(n) == {f \in [1..n -> 1..n] : \A i, j \in 1..n : f[i] = f[j] => i = j}
Rearranged(s, f) == [i \in 1..Len(s) |-> s[f[i]]]

\* C14: for n >= 2 event times in any order calculate_intervals returns the
\* n-1 differences between consecutive times of the ascending arrangement:
\* none negative, summing to max - min, the same for every order of the
\* input, with count n-1 and their mean, median, standard deviation,
\* minimum and maximum; ([1,3,6,10] in any order gives [2,3,4], mean 3,
\* median 3, min 2, max 4); for no times or fewer than 2 it returns None.
C14_IntervalsOfSortedTimes ==
    iv_out.called =>
        LET r == iv_out.ret
            t == iv_times.arr
            n == Len(t)
            T == {t[i] : i \in 1..n}
            D == {r.intervals[i] : i \in 1..(n - 1)}
        IN  IF iv_times.isNone \/ n < 2 THEN r.isNone
            ELSE /\ ~r.isNone
                 /\ Len(r.intervals) = n - 1
                 /\ r.count = n - 1
                 /\ \A f \in Permutations(n) :
                       /\ (\A i \in 1..(n - 1) : t[f[i]] <= t[f[i + 1]]) =>
                              \A i \in 1..(n - 1) : r.intervals[i] = t[f[i + 1]] - t[f[i]]
                       /\ calculate_intervals(Some(Rearranged(t, f))) = r
                 /\ \A i \in 1..(n - 1) : r.intervals[i] >= 0
                 /\ r.mean_sum = SetMax(T) - SetMin(T)
                 /\ r.min \in D /\ \A d \in D : r.min <= d
                 /\ r.max \in D /\ \A d \in D : d <= r.max
                 /\ 2 * Cardinality({i \in 1..(n - 1) : 2 * r.intervals[i] < r.median2}) <= n - 1
                 /\ 2 * Cardinality({i \in 1..(n - 1) : 2 * r.intervals[i] > r.median2}) <= n - 1
                 /\ 2 * r.min <= r.median2 /\ r.median2 <= 2 * r.max
                 /\ r.std_n2 = (n - 1) * Sum([i \in 1..(n - 1) |-> r.intervals[i] * r.intervals[i]])
                               - r.mean_sum * r.mean_sum
                 /\ (\E a, b, c, d \in 1..n : <<t[a], t[b], t[c], t[d]>> = <<1, 3, 6, 10>> /\ n = 4) =>
                        /\ r.intervals = <<2, 3, 4>>
                        /\ r.mean_sum = 3 * r.count
                        /\ r.median2 = 2 * 3
                        /\ r.min = 2 /\ r.max = 4

\* The times 1, 3, 6, 10 given out of order.
C14_Witness ==
    /\ iv_out.called
    /\ iv_times = Some(<<6, 1, 10, 3>>)
    /\ iv_out.ret.intervals = <<2, 3, 4>>
    /\ iv_out.ret.count = 3

\* C15: for one reference trace and thresholds t1 < t2, every sample that
\* detect_artifacts flags with t2 it also flags with t1, whatever the MAD
\* of the trace (0 included).
C15_ArtifactMaskMonotone ==
    Len(da_masks) = 2 =>
        /\ Len(da_masks[1]) = Len(da_control)
        /\ Len(da_masks[2]) = Len(da_control)
        /\ \A i \in 1..Len(da_control) : da_masks[2][i] => da_masks[1][i]

\* The higher threshold flags a sample and the lower one flags more.
C15_Witness ==
    /\ Len(da_masks) = 2
    /\ \E i \in 1..Len(da_control) : da_masks[2][i]
    /\ \E i \in 1..Len(da_control) : da_masks[1][i] /\ ~da_masks[2][i]
    /\ da_thresholds[1] > 0

\* C16: advanced_denoise_signal returns every sample whose mask entry is
\* false as it was passed, leaves the caller's array as it was, and with an
\* all-false mask returns the input at every sample; in normal and in
\* aggressive mode, with and without a reference.
C16_DenoiseChangesOnlyMaskedSamples ==
    dn_out.called =>
        /\ Len(dn_out.ret) = Len(dn_args.signal)
        /\ \A q \in 1..Len(dn_args.signal) :
              ~dn_args.artifact_mask[q] => dn_out.ret[q] = dn_args.signal[q]
        /\ dn_signal = dn_args.signal
        /\ (\A q \in 1..Len(dn_args.signal) : ~dn_args.artifact_mask[q]) =>
               dn_out.ret = dn_args.signal

\* An aggressive-mode call with a reference and more than ten clean
\* samples that replaces a masked sample.
C16_Witness ==
    /\ dn_out.called
    /\ dn_args.aggressive_mode
    /\ ~dn_args.control_signal.isNone
    /\ Cardinality({q \in 1..Len(dn_args.signal) : ~dn_args.artifact_mask[q]}) > MinValidForBlend
    /\ \E q \in 1..Len(dn_args.signal) :
          dn_args.artifact_mask[q] /\ dn_out.ret[q] # dn_args.signal[q]
    /\ dn_signal = dn_args.signal

C18_FallbackReachesCpuFilter ==
    /\ Cardinality({i \in 1..Len(gp_stack) : gp_stack[i] = "gpu_butter_filter"}) <= 1
    /\ FilterReturned => gp_ret = "filtered"

\* ---- C19
\* The grid the two traces of a call are resampled to: N samples over the
\* overlap of the two time ranges.
XcN == Min2(Len(xc_args.time1), Len(xc_args.time2))
XcSpan ==
    Min2(xc_args.time1[Len(xc_args.time1)], xc_args.time2[Len(xc_args.time2)])
        - Max2(xc_args.time1[1], xc_args.time2[1])
\* m = min(floor(max_lag / dt), N - 1) for dt = span / (N - 1)
XcM == Min2((xc_args.max_lag * (XcN - 1)) \div XcSpan, XcN - 1)
SelfCorrelation ==
    xc_args.time1 = xc_args.time2 /\ xc_args.signal1 = xc_args.signal2
\* The trimmed range is the lags -m..+m with lag 0 in the middle.
TrimmedToMaxLag ==
    /\ xc_out.lags = [i \in 1..(2 * XcM + 1) |-> i - XcM - 1]
    /\ Len(xc_out.cross_corr) = 2 * XcM + 1
    /\ xc_out.lags[XcM + 1] = 0
\* The reported lag is a lag of the range at which |correlation| is largest.
PeakMaximizes ==
    /\ xc_out.peak_idx \in 1..Len(xc_out.lags)
    /\ xc_out.peak_lag = xc_out.lags[xc_out.peak_idx]
    /\ \A j \in 1..Len(xc_out.cross_corr) :
           /\ xc_out.cross_corr[j] \notin {NaN}
           /\ xc_out.cross_corr[xc_out.peak_idx] \notin {NaN}
           /\ Abs(xc_out.cross_corr[j]) <= Abs(xc_out.cross_corr[xc_out.peak_idx])

\* C19: the trimmed cross-correlation of two traces resampled to a grid of
\* N samples with spacing dt covers exactly the lags -m..+m for
\* m = min(floor(max_lag/dt), N-1) with lag 0 at the centre, the reported
\* lag is one of them and maximizes |correlation|, and a trace correlated
\* with itself has its peak at lag 0.
C19_CrossCorrelationPeak ==
    xc_out.called =>
        /\ TrimmedToMaxLag
        /\ PeakMaximizes
        /\ (SelfCorrelation => xc_out.peak_lag = 0)

\* C19 holds of the traces that are not zero throughout the grid.
C19_CrossCorrelationPeakOfNonZeroTraces ==
    (xc_out.called /\ \A j \in 1..Len(xc_out.cross_corr) : xc_out.cross_corr[j] \notin {NaN, Inf}) =>
        /\ TrimmedToMaxLag
        /\ PeakMaximizes
        /\ (SelfCorrelation => xc_out.peak_lag = 0)

\* A trace that is zero throughout, correlated with itself over more lags
\* than one: the peak is reported at the first lag of the range.
C19_ZeroTracePeakOffCentre ==
    /\ xc_out.called /\ SelfCorrelation
    /\ \A i \in 1..Len(xc_args.signal1) : xc_args.signal1[i] = 0
    /\ XcM >= 1
    /\ xc_out.peak_lag = -XcM
    /\ xc_out.peak_corr = NaN

\* ---- C20
\* A call without a reference channel that is valid otherwise: it passes
\* the validation, has a time axis, and neither the conversion of the
\* signal nor the slicing raises.
ValidWithoutReference ==
    /\ control_raw.isNone
    /\ ~InvalidCall
    /\ ~time_raw.isNone
    /\ fault \notin {"convert_signal", "downsample"}

\* C20: a call without a reference channel that is valid otherwise returns
\* a non-failure result: motion correction is skipped (the tuple carries
\* the signal as filtered, no fit subtracted), raw2 is absent, the artifact
\* mask is all-false and as long as the signal at full rate and in the
\* returned tuple, and time, dff and raw1 are the strided full-rate arrays.
C20_NoReferenceStillSucceeds ==
    (Returned /\ ValidWithoutReference) =>
        LET factor == Max2(1, cfg.downsample_factor)
        IN  /\ Succeeded
            /\ motion_corrected = processed_signal
            /\ result.raw2_ds = None
            /\ artifact_mask = AllFalse(Len(signal_raw.arr))
            /\ result.artifact_mask_ds = Some(AllFalse(Len(result.raw1_ds.arr)))
            /\ result.time_ds = Some(Stride(time_raw.arr, factor))
            /\ result.dff_ds = Some(Stride(dff_signal, factor))
            /\ result.raw1_ds = Some(Stride(FullRate("raw1_ds").arr, factor))
            /\ Len(dff_signal) = Len(signal_raw.arr)

\* A five-sample call without a reference, returned at stride 2 with a
\* three-sample mask and no raw2.
C20_Witness ==
    /\ Returned /\ ValidWithoutReference
    /\ Len(signal_raw.arr) = 5
    /\ cfg.downsample_factor = 2
    /\ "motion" \in ran
    /\ result.raw2_ds = None
    /\ result.artifact_mask_ds = Some(<<FALSE, FALSE, FALSE>>)
    /\ Len(result.dff_ds.arr) = 3

\* ---- C21
\* The positions (from 1) an event dict reports.
Reported(ev) == {ev.indices[i] + 1 : i \in 1..Len(ev.indices)}
\* int(distance_s * fs), 0 when no separation is asked for.
SeparationAsked ==
    IF pk_args.distance_s10 > 0 THEN (pk_args.distance_s10 * pk_args.fs) \div 10 ELSE 0
\* The local maxima of x that satisfy the prominence and width constraints.
Candidates(x) ==
    {p \in LocalMaxima(x) :
        /\ peak_prominences(x, p).prominence >= pk_args.prominence
        /\ (pk_args.width_s10 > 0 =>
                WidthAtLeast(x, p, (pk_args.width_s10 * pk_args.fs) \div 10))}
DetectionReturned == pk_out.called /\ ~pk_out.raised /\ pk_out.peaks.has
Separated(S) == \A p \in S, q \in S : p # q => Abs(p - q) >= SeparationAsked
\* Of two candidates closer than the separation, the less prominent one is
\* not reported.
MoreProminentKept(x, S) ==
    \A p \in Candidates(x), q \in Candidates(x) :
        (/\ Abs(p - q) < SeparationAsked
         /\ peak_prominences(x, p).prominence > peak_prominences(x, q).prominence)
            => q \notin S
\* A candidate that is not reported has a local maximum at least as high
\* closer than the separation.
DroppedForHigher(x, S) ==
    \A q \in Candidates(x) \ S :
        \E j \in LocalMaxima(x) : j # q /\ Abs(j - q) < SeparationAsked /\ x[j] >= x[q]

MetricsMeasured == mt_pc = "done" /\ ~mt_events.raised /\ ~mt_peak_metrics.isNone
\* The valleys around the peak at index e (counted from 0).
ValleysBefore(e) == {v \in Reported(mt_events.valleys) : v - 1 < e}
ValleysAfter(e) == {v \in Reported(mt_events.valleys) : v - 1 > e}
\* Twice the half-height of the peak at e between the valleys at pre and post.
HalfHeight2(e, pre, post) ==
    Min2(mt_signal[pre + 1], mt_signal[post + 1]) + mt_signal[e + 1]
\* Scanning from the peak toward the valley before it: the last index
\* reached before the trace is below half-height.
RiseCrossing(e, pre, post) ==
    SetMin({k \in pre..e :
               \A i \in k..e : 2 * mt_signal[i + 1] >= HalfHeight2(e, pre, post)})
\* The same toward the valley after it.
DecayCrossing(e, pre, post) ==
    SetMax({k \in e..post :
               \A i \in e..k : 2 * mt_signal[i + 1] >= HalfHeight2(e, pre, post)})

\* C22: for an enclosed peak the rise time is measured from the first
\* index, scanning from the peak toward the preceding valley, at which the
\* trace crosses half-height, and the decay time to the first such index
\* toward the following valley, also on a flank that crosses half-height
\* more than once.
C22_CrossingsNearestThePeak ==
    MetricsMeasured =>
        \A i \in 1..Len(mt_events.peaks.indices) :
            LET e == mt_events.peaks.indices[i]
                t == Clock(Len(mt_signal))
            IN  (ValleysBefore(e) # {} /\ ValleysAfter(e) # {}) =>
                    LET pre == SetMax(ValleysBefore(e)) - 1
                        post == SetMin(ValleysAfter(e)) - 1
                    IN  /\ mt_peak_metrics.rise_time[i] = t[e + 1] - t[RiseCrossing(e, pre, post) + 1]
                        /\ mt_peak_metrics.decay_time[i] = t[DecayCrossing(e, pre, post) + 1] - t[e + 1]

\* The peak at index 2 of a trace whose falling flank dips below
\* half-height at index 3 and is above it again at index 4: the decay time
\* is measured to index 4.
C22_FarthestCrossingUsed ==
    /\ MetricsMeasured
    /\ mt_signal = <<3, 0, 3, 1, 2, 0, 3>>
    /\ mt_args.prominence = 2
    /\ mt_events.peaks.indices = <<2>>
    /\ mt_events.valleys.indices = <<1, 5>>
    /\ DecayCrossing(2, 1, 5) = 2
    /\ mt_peak_metrics.decay_time = <<Clock(7)[5] - Clock(7)[3]>>

\* ---- C23
\* Every event of the list has the metrics of the enclosure made by the
\* first and the last sample of the trace.
MetricsAgainstTraceEnds(m, events, fields, sign) ==
    /\ ~m.isNone
    /\ \A f \in fields : Len(m[f]) = Len(events)
    /\ \A i \in 1..Len(events) : \A f \in fields :
           /\ m[f][i] # NaN
           /\ m[f][i] = EnclosedMetrics(mt_signal, events[i], 0, Len(mt_signal) - 1, sign)[f]

\* C23: when a detection finds no valleys, the metrics of every peak are
\* those of the enclosure from the first to the last sample of the trace,
\* and when it finds no peaks, the same holds of every valley.
C23_NoOppositeEventsUseTraceEnds ==
    (mt_pc = "done" /\ ~mt_events.raised) =>
        /\ (Len(mt_events.peaks.indices) > 0 /\ Len(mt_events.valleys.indices) = 0) =>
               MetricsAgainstTraceEnds(mt_peak_metrics, mt_events.peaks.indices,
                                       {"area2", "fwhm", "rise_time", "decay_time"}, 1)
        /\ (Len(mt_events.valleys.indices) > 0 /\ Len(mt_events.peaks.indices) = 0) =>
               MetricsAgainstTraceEnds(mt_valley_metrics, mt_events.valleys.indices,
                                       {"area2", "fwhm"}, -1)

\* A single peak and no valley: every metric of the peak is NaN.
C23_LonePeakHasNoMetrics ==
    /\ mt_pc = "done" /\ ~mt_events.raised
    /\ mt_signal = <<0, 1, 2, 1, 0>>
    /\ mt_events.peaks.indices = <<2>>
    /\ mt_events.valleys.indices = <<>>
    /\ mt_peak_metrics = [isNone |-> FALSE, area2 |-> <<NaN>>, fwhm |-> <<NaN>>,
                          rise_time |-> <<NaN>>, decay_time |-> <<NaN>>]

\* ---- C24
CleanSamples == Where(dn_args.artifact_mask, FALSE)
MaskedSamples == Where(dn_args.artifact_mask, TRUE)
\* 0.7 * regression prediction + 0.3 * linear interpolation at sample q
BlendValue(q) ==
    FloorDiv(7 * PredictAt(dn_args.signal, dn_args.control_signal.arr, CleanSamples, q)
                 + 3 * InterpAt(dn_args.signal, Ticks(Len(dn_args.signal)), CleanSamples, q), 10)
InterpValue(q) == InterpAt(dn_args.signal, Ticks(Len(dn_args.signal)), CleanSamples, q)
\* The masked samples of the result are the blend when the mode is
\* aggressive, a reference is given and at least `least` samples are
\* clean, and the interpolation otherwise.
BlendFrom(least) ==
    \A k \in 1..Len(MaskedSamples) :
        LET q == MaskedSamples[k]
        IN  IF /\ dn_args.aggressive_mode
               /\ ~dn_args.control_signal.isNone
               /\ Len(CleanSamples) >= least
            THEN dn_out.ret[q] = BlendValue(q)
            ELSE dn_out.ret[q] = InterpValue(q)

\* C24: in a call that can interpolate (two clean samples or more), the
\* masked samples get the regression blend when the mode is aggressive, a
\* reference is given and at least 10 samples are clean, and the plain
\* interpolation otherwise.
C24_BlendFromTenCleanSamples ==
    (dn_out.called /\ Len(CleanSamples) >= 2) => BlendFrom(10)

\* C24 as the code has it: the blend needs more than 10 clean samples (11
\* or more); with fewer than two clean samples the signal is returned as
\* it is.
C24_BlendFromElevenCleanSamples ==
    dn_out.called =>
        IF Len(CleanSamples) >= 2 THEN BlendFrom(MinValidForBlend + 1)
        ELSE dn_out.ret = dn_args.signal

\* An aggressive call with a reference and exactly ten clean samples in
\* which the blend and the interpolation differ at a masked sample: the
\* result carries the interpolation.
C24_Witness ==
    /\ dn_out.called
    /\ dn_args.aggressive_mode /\ ~dn_args.control_signal.isNone
    /\ Len(CleanSamples) = 10
    /\ \E k \in 1..Len(MaskedSamples) :
          /\ BlendValue(MaskedSamples[k]) # InterpValue(MaskedSamples[k])
          /\ dn_out.ret[MaskedSamples[k]] = InterpValue(MaskedSamples[k])

\* ---- C25
RcN == Min2(Len(rc_args.time1), Len(rc_args.time2))
RcSpan ==
    Min2(rc_args.time1[Len(rc_args.time1)], rc_args.time2[Len(rc_args.time2)])
        - Max2(rc_args.time1[1], rc_args.time2[1])
\* w = int(window_seconds / dt) for dt = span / (N - 1)
RcW == (rc_args.window_size * (RcN - 1)) \div RcSpan
\* One value for each i with floor(w/2) <= i < N - floor(w/2), in order,
\* with the grid time at i.
OnePerInteriorIndex ==
    /\ Len(rc_out.rolling) = Max2(RcN - 2 * (RcW \div 2), 0)
    /\ \A k \in 1..Len(rc_out.rolling) :
           /\ rc_out.rolling[k].i = (RcW \div 2) + k - 1
           /\ rc_out.rolling[k].time = rc_out.common_time[rc_out.rolling[k].i + 1]
\* The samples (counted from 0) a value was computed over.
WindowOf(k) == rc_out.rolling[k].start_idx..(rc_out.rolling[k].end_idx - 1)

\* C25: the rolling correlation has one value for each interior index i
\* with floor(w/2) <= i < N - floor(w/2), w = int(window_seconds/dt), each
\* computed over a window of w samples centred at i that lies inside the
\* grid, and reported at the grid time of i.
C25_WindowOfWSamplesCentred ==
    rc_out.called =>
        /\ OnePerInteriorIndex
        /\ \A k \in 1..Len(rc_out.rolling) :
               /\ WindowOf(k) \subseteq 0..(RcN - 1)
               /\ Cardinality(WindowOf(k)) = RcW
               /\ SetMin(WindowOf(k)) + SetMax(WindowOf(k)) = 2 * rc_out.rolling[k].i

\* What holds of every call: the values are one per interior index at its
\* grid time, over the samples i - floor(w/2) .. i + floor(w/2) - 1.
C25_WindowAsSliced ==
    rc_out.called =>
        /\ OnePerInteriorIndex
        /\ \A k \in 1..Len(rc_out.rolling) :
               /\ WindowOf(k) \subseteq 0..(RcN - 1)
               /\ WindowOf(k) = (rc_out.rolling[k].i - RcW \div 2)..(rc_out.rolling[k].i + RcW \div 2 - 1)

\* A window of three samples asked on a grid of four: the values at the
\* indices 1 and 2 are computed over two samples each, i - 1 and i.
C25_ThreeSampleWindowUsesTwo ==
    /\ rc_out.called
    /\ RcN = 4 /\ RcW = 3
    /\ Len(rc_out.rolling) = 2
    /\ WindowOf(1) = {0, 1}
    /\ WindowOf(2) = {1, 2}

\* ---- C26
ProcessedFields == {"time", "dff", "raw1", "raw2", "fit", "artifact_mask"}
\* The call process_and_update makes for the dataset is rejected or fails.
PipelineFails(d) ==
    process_data_pipeline(Some(d.time_raw), Some(d.analog_1_raw), Some(d.analog_2_raw),
                          PipelineConfig(d)) = Failure

\* C26: a process_and_update whose pipeline call is rejected or fails
\* leaves the stored processed trace of the dataset as it was, and a
\* loaded dataset never has a processed field without a value.
C26_FailedUpdateKeepsStoredTrace ==
    /\ primary_data.loaded => \A f \in ProcessedFields : ~primary_data[f].isNone
    /\ secondary_data.loaded => \A f \in ProcessedFields : ~secondary_data[f].isNone

\* The low cutoff set to the high cutoff and the filter applied: every
\* processed field of the primary dataset is None.
C26_StoredTraceLost ==
    /\ primary_data.loaded
    /\ workers = 0
    /\ params.low_cutoff = 2
    /\ PipelineFails(primary_data)
    /\ \A f \in ProcessedFields : primary_data[f].isNone

\* ---- C28
\* The rate run_detection hands to find_peaks_valleys for a dataset, and
\* the rate of the dataset's stored time axis (time is held in tenths of
\* a second, so a spacing of s tenths is a rate of 10 / s).
RatePassed(d) == d.fs
HasTimeAxis(d) == d.loaded /\ ~d.time.isNone /\ Len(d.time.arr) >= 2
Spacing(d) == d.time.arr[2] - d.time.arr[1]
RateMatchesAxis(d) == HasTimeAxis(d) => RatePassed(d) * Spacing(d) = 10

\* C28: the sample rate run_detection passes to find_peaks_valleys equals
\* the rate of the stored time axis of every loaded dataset, after loading
\* and after every re-run of the pipeline by update_filter.
C28_DetectionRateIsTraceRate ==
    RateMatchesAxis(primary_data) /\ RateMatchesAxis(secondary_data)

\* After update_filter re-ran the pipeline with a downsample factor of 2,
\* the stored axis has half the rate run_detection passes.
C28_RateStaleAfterUpdate ==
    /\ HasTimeAxis(primary_data)
    /\ workers = 0
    /\ params.downsample_factor = 2
    /\ RatePassed(primary_data) * Spacing(primary_data) = 20


\* ---- C27
\* What run_detection found came from one call of the pipeline.
SeenFromOneCall ==
    \A j, k \in 1..Len(StoreOrder) :
        /\ wk_seen.origin[j] = wk_seen.origin[k]
        /\ wk_seen.len[j] = wk_seen.len[k]
AllThreadsDone ==
    /\ Len(wk_threads) > 0
    /\ \A i \in 1..Len(wk_threads) : wk_threads[i].pc = "done"
LastRequested == wk_threads[Len(wk_threads)].requested
StoredIs(r) == \A k \in 1..Len(StoreOrder) : primary_data[StoreOrder[k]] = r[Returned6[k]]
ResultOf(c) ==
    process_data_pipeline(Some(primary_data.time_raw), Some(primary_data.analog_1_raw),
                          Some(primary_data.analog_2_raw), c)

\* C27: whatever the interleaving of the process_and_update threads with
\* each other and with the main thread, run_detection finds six processed
\* fields stored by one call of the pipeline, of one length, and once every
\* thread has finished the stored trace is the pipeline's result for the
\* controls as they were at the last call of update_filter.
C27_WorkersKeepTraceConsistent ==
    /\ wk_seen.read => SeenFromOneCall
    /\ AllThreadsDone => StoredIs(ResultOf(LastRequested))

\* run_detection ran between two assignments of a thread: the time axis
\* it found is the thread's, the dff is the loader's, and they differ in
\* length.
C27_TornRead ==
    /\ wk_seen.read
    /\ wk_seen.origin[1] = 1
    /\ wk_seen.origin[2] = 0
    /\ wk_seen.len[1] < wk_seen.len[2]

\* The thread of the first call stored last: the stored trace is the
\* result for the controls of the first call.
C27_StaleTraceWins ==
    /\ AllThreadsDone
    /\ Len(wk_threads) = 2
    /\ wk_threads[1].requested # LastRequested
    /\ StoredIs(ResultOf(wk_threads[1].requested))
    /\ ~StoredIs(ResultOf(LastRequested))


\* ---- C29
OnePerEvent(m, events, fields) ==
    ~m.isNone => \A k \in fields : Len(m[k]) = Len(events.indices)

\* C29: every list of a result of calculate_peak_metrics and of
\* calculate_valley_metrics has one entry per event, whatever the time
\* argument, also when the area of an event fails after its widths were
\* appended.
C29_OneEntryPerEvent ==
    mt_pc = "done" =>
        /\ OnePerEvent(mt_peak_metrics, mt_events.peaks,
                       {"area2", "fwhm", "rise_time", "decay_time"})
        /\ OnePerEvent(mt_valley_metrics, mt_events.valleys, {"area2", "fwhm"})

\* One peak, a time argument that reaches its decay crossing and ends
\* before the valley after it: two entries of fwhm, rise_time and
\* decay_time, one of area.
C29_ListsOutOfStep ==
    /\ mt_pc = "done"
    /\ mt_signal = <<3, 0, 3, 2, 1, 0, 3>>
    /\ mt_time = Clock(4)
    /\ mt_events.peaks.indices = <<2>>
    /\ mt_peak_metrics.area2 = <<NaN>>
    /\ mt_peak_metrics.fwhm = <<Clock(4)[4] - Clock(4)[3], NaN>>
    /\ mt_peak_metrics.rise_time = <<0, NaN>>
    /\ mt_peak_metrics.decay_time = <<Clock(4)[4] - Clock(4)[3], NaN>>


\* ---- C30
\* Peak i of the detection has its metrics.
MetricsAvailable(i) ==
    /\ mt_peak_metrics.fwhm[i] # NaN
    /\ mt_peak_metrics.rise_time[i] # NaN
    /\ mt_peak_metrics.decay_time[i] # NaN
\* The widths of peak i are measured between samples r and d of the time
\* axis with r <= e <= d, e the index of the peak.
CrossingsAroundPeak(i) ==
    LET e == mt_events.peaks.indices[i]
    IN  \E r \in 0..e : \E d \in e..(Len(mt_time) - 1) :
            /\ mt_peak_metrics.rise_time[i] = mt_time[e + 1] - mt_time[r + 1]
            /\ mt_peak_metrics.decay_time[i] = mt_time[d + 1] - mt_time[e + 1]
            /\ mt_peak_metrics.fwhm[i] = mt_time[d + 1] - mt_time[r + 1]

\* C30: for every peak whose metrics are available, the rise crossing is
\* at or before the peak and the decay crossing at or after it, the rise
\* time and the decay time are not negative, and the width at half
\* maximum is their sum.
C30_WidthIsRisePlusDecay ==
    MetricsMeasured =>
        \A i \in 1..Len(mt_events.peaks.indices) :
            MetricsAvailable(i) =>
                /\ CrossingsAroundPeak(i)
                /\ mt_peak_metrics.rise_time[i] >= 0
                /\ mt_peak_metrics.decay_time[i] >= 0
                /\ mt_peak_metrics.fwhm[i] =
                       mt_peak_metrics.rise_time[i] + mt_peak_metrics.decay_time[i]

\* A peak at index 3 with crossings at indices 2 and 4.
C30_Witness ==
    /\ MetricsMeasured
    /\ mt_signal = <<3, 0, 2, 3, 2, 0, 3>>
    /\ mt_events.peaks.indices = <<3>>
    /\ MetricsAvailable(1)
    /\ mt_peak_metrics.rise_time = <<Clock(7)[4] - Clock(7)[3]>>
    /\ mt_peak_metrics.decay_time = <<Clock(7)[5] - Clock(7)[4]>>
    /\ mt_peak_metrics.fwhm = <<Clock(7)[5] - Clock(7)[3]>>

====
